---- MODULE Spec2Model ----
(***************************************************************************)
(* A model of willow's dataclass codec: the inclusion engine, the capture  *)
(* loop, to_dict / to_json, from_dict / from_json, key resolution and the  *)
(* Validated mixin.  Python values are tagged records, a call's outcome is *)
(* either a returned value or a raised exception.                          *)
(***************************************************************************)
EXTENDS Integers, Sequences, FiniteSets, TLC

\* cls    the dataclass under test
\* obj    the instance constructed last (NoObj before any)
\* op     the operation called last, arg its input, ret its outcome
\* vlog   the validator invocations the last operation made
\* ctor   the keywords the last operation passed to the constructor
\* loop   the work stack, containers and result of a running capture loop
\* dirty_fields   the set WillowMixin.__willow_dirty_fields, a class attribute
\* scopes the batch_update scopes entered and not left, innermost last: the
\*        flag each one saved on entry and, as history, the fields assigned
\*        since it was entered
VARIABLES cls, obj, op, arg, ret, vlog, ctor, loop, dirty_fields, scopes

vars == <<cls, obj, op, arg, ret, vlog, ctor, loop, dirty_fields, scopes>>

----------------------------------------------------------------------------
(* Bounds of the model                                                     *)

MaxFields == 2

MaxKeys == 3

\* longest list or tuple of the values given to capture
MaxLen == 2

----------------------------------------------------------------------------
(* Python values                                                           *)

PyNone == [t |-> "none"]

PyInt(n) == [t |-> "int", i |-> n]

PyBool(b) == [t |-> "bool", b |-> b]

PyStr(s) == [t |-> "str", s |-> s]

PyList(items) == [t |-> "list", items |-> items]

PyTuple(items) == [t |-> "tuple", elems |-> items]

\* a dict is an insertion-ordered sequence of <<key, value>> pairs
PyDict(entries) == [t |-> "dict", entries |-> entries]

PyEnum(member, value) == [t |-> "enum", member |-> member, value |-> value]

PyDate(iso) == [t |-> "date", iso |-> iso]

PyUUID(text) == [t |-> "uuid", hex |-> text]

\* a dataclass instance: its class, the field values in field order, the
\* asdict cache of WillowMixin (None until asdict fills it), the validation
\* flag of WillowMixin and the hash cache of Hashable
PyObj(c, vals) ==
    [t |-> "obj", cls |-> c, vals |-> vals, willow_asdict |-> PyNone,
     willow_validation |-> TRUE, willow_hash |-> PyNone]

MISSING == [t |-> "MISSING"]

\* outcome of a call
Return(v) == [ok |-> TRUE, val |-> v]

\* a raised exception: its class, the field and value a willow error
\* carries, and the class of the exception it wraps ("" when none)
Raise(exc, fname, v, cause) ==
    [ok |-> FALSE, exc |-> exc, field |-> fname, value |-> v, cause |-> cause]

NoField == "<none>"

\* a native exception carries no field
Native(exc) == Raise(exc, NoField, PyNone, "")

\* r, when it raised; what K makes of its value, when it returned
Then(r, K(_)) == IF r.ok THEN K(r.val) ELSE r

\* r, when it returned; what H makes of its exception, when it raised
Catch(r, H(_)) == IF r.ok THEN r ELSE H(r.exc)

\* the value x, named in what follows
With(x, K(_)) == K(x)

RECURSIVE SeqToSet(_)
SeqToSet(s) == IF s = <<>> THEN {} ELSE {Head(s)} \cup SeqToSet(Tail(s))

\* dict helpers: membership, lookup, assignment (dict.__setitem__ keeps the
\* position of an existing key and appends a new one)
DictKeys(d) == {d.entries[i][1] : i \in 1..Len(d.entries)}

DictHas(d, k) == \E i \in 1..Len(d.entries) : d.entries[i][1] = k

DictGet(d, k) == d.entries[CHOOSE i \in 1..Len(d.entries) : d.entries[i][1] = k][2]

DictSet(d, k, v) ==
    IF DictHas(d, k)
    THEN PyDict([i \in 1..Len(d.entries) |->
                    IF d.entries[i][1] = k THEN <<k, v>> ELSE d.entries[i]])
    ELSE PyDict(Append(d.entries, <<k, v>>))

\* bool(value) for the values of the model
Truthy(v) ==
    CASE v.t = "none" -> FALSE
      [] v.t = "bool" -> v.b
      [] v.t = "int" -> v.i # 0
      [] v.t = "str" -> v.s # ""
      [] v.t = "list" -> v.items # <<>>
      [] v.t = "tuple" -> v.elems # <<>>
      [] v.t = "dict" -> v.entries # <<>>
      [] OTHER -> TRUE

----------------------------------------------------------------------------
(* Members and their metadata                                              *)

\* marker of a metadata key that is not set
Absent == "<absent>"

NoAliases == [a |-> "absent"]

AliasStr(s) == [a |-> "str", s |-> s]

AliasList(l) == [a |-> "list", l |-> l]

\* the willow metadata bag of a member
Willow(ignore, serializer, validator, allow_none, json_key, aliases) ==
    [ignore |-> ignore, serializer |-> serializer, deserializer |-> Absent,
     validator |-> validator, allow_none |-> allow_none,
     json |-> [key |-> json_key, aliases |-> aliases]]

NoWillow == Willow(FALSE, Absent, Absent, FALSE, Absent, NoAliases)

\* a dataclasses.Field
Field(name, type, default, default_factory, willow) ==
    [kind |-> "field", name |-> name, type |-> type, default |-> default,
     default_factory |-> default_factory, willow |-> willow]

\* a property of the class; a plain property carries no __willow__
\* (fget is the value its getter returns)
Property(name, willow, fget) ==
    [kind |-> "property", name |-> name, willow |-> willow, fget |-> fget]

IsProperty(member) == member.kind = "property"

\* willow_metadata(member, path, default) for the paths the codec asks for:
\* the value under the dotted path, default when a segment is not set
willow_metadata(member, path, default) ==
    CASE path = "ignore" -> PyBool(member.willow.ignore)
      [] path = "serializer" ->
            IF member.willow.serializer = Absent THEN default
            ELSE PyStr(member.willow.serializer)
      [] path = "deserializer" ->
            IF member.willow.deserializer = Absent THEN default
            ELSE PyStr(member.willow.deserializer)
      [] path = "json.key" ->
            IF member.willow.json.key = Absent THEN default
            ELSE PyStr(member.willow.json.key)
      [] OTHER -> default

\* Python callables named in metadata ------------------------------------

\* serializer "wrap": lambda v: (v,)
ApplySerializer(fn, v) == PyTuple(<<v>>)

\* validators: "positive" is lambda v: v > 0 (raises TypeError on a value
\* that does not compare with 0), "nonempty" is lambda v: bool(v),
\* "boom" always raises
ApplyValidator(fn, v) ==
    CASE fn = "positive" ->
            IF v.t = "int" THEN Return(PyBool(v.i > 0))
            ELSE IF v.t = "bool" THEN Return(PyBool(v.b))
            ELSE Native("TypeError")
      [] fn = "nonempty" -> Return(PyBool(Truthy(v)))
      [] OTHER -> Native("ValueError")

\* default factories: "list" is list, "boom" raises
ApplyFactory(fn) ==
    IF fn = "list" THEN Return(PyList(<<>>))
    ELSE IF fn = "dict" THEN Return(PyDict(<<>>))
    ELSE Native("RuntimeError")

----------------------------------------------------------------------------
(* Classes and instances                                                   *)

\* a dataclass: its willow bases (<<>> for a plain dataclass), its fields in
\* declaration order, the properties it defines, and its class variables
Class(name, bases, fields, props, json_wrapper, inclusion) ==
    [name |-> name, bases |-> bases, fields |-> fields, props |-> props,
     json_wrapper |-> json_wrapper, inclusion |-> inclusion]

WillowBases == {"WillowMixin", "Serializable", "Validated", "Updatable", "Hashable"}

DerivesWillow(c) == \E i \in 1..Len(c.bases) : c.bases[i] \in WillowBases

Derives(c, base) == \E i \in 1..Len(c.bases) : c.bases[i] = base

\* the properties WillowMixin itself defines, in dir() order
MixinPropertyNames ==
    <<"_dirty_fields", "_field_names", "_fields", "_initialized",
      "_properties", "_property_names", "_willow_validation">>

Opaque == [t |-> "opaque"]

IsPrivate(name) == name \in SeqToSet(MixinPropertyNames)

\* WillowMixin._fields
_fields(o) == o.cls.fields

\* WillowMixin._properties: every property found on the class; dir() lists
\* the underscore names first
_properties(o) ==
    [i \in 1..Len(MixinPropertyNames) |->
        Property(MixinPropertyNames[i], NoWillow, Opaque)] \o o.cls.props

\* WillowMixin._members
_members(o, include_properties, include_private) ==
    LET props == _properties(o)
        public == SelectSeq(props, LAMBDA p : ~IsPrivate(p.name))
    IN  IF include_properties
        THEN IF ~include_private THEN _fields(o) \o public
             ELSE _fields(o) \o props
        ELSE _fields(o)

FieldIndex(c, name) == CHOOSE i \in 1..Len(c.fields) : c.fields[i].name = name

HasField(c, name) == \E i \in 1..Len(c.fields) : c.fields[i].name = name

\* getattr(obj, name, None) for a member of the object
GetAttr(o, member) ==
    IF IsProperty(member) THEN member.fget
    ELSE o.vals[FieldIndex(o.cls, member.name)]

----------------------------------------------------------------------------
(* Inclusion engine                                                        *)

\* the members of enum Include
IncludeMembers == {"NON_NULL", "NON_DEFAULT", "ALWAYS"}

Num(v) == IF v.t = "int" THEN v.i ELSE IF v.b THEN 1 ELSE 0

\* Python's ==
RECURSIVE PyEq(_, _)
PyEq(x, y) ==
    CASE x.t \in {"int", "bool"} /\ y.t \in {"int", "bool"} -> Num(x) = Num(y)
      [] x.t = "list" /\ y.t = "list" ->
            /\ Len(x.items) = Len(y.items)
            /\ \A i \in 1..Len(x.items) : PyEq(x.items[i], y.items[i])
      [] x.t = "tuple" /\ y.t = "tuple" ->
            /\ Len(x.elems) = Len(y.elems)
            /\ \A i \in 1..Len(x.elems) : PyEq(x.elems[i], y.elems[i])
      [] x.t = "dict" /\ y.t = "dict" ->
            /\ DictKeys(x) = DictKeys(y)
            /\ \A k \in DictKeys(x) : PyEq(DictGet(x, k), DictGet(y, k))
      [] OTHER -> x = y

\* the attribute access Include.<name>: AttributeError when the enum has no
\* such member
Include(name) ==
    IF name \in IncludeMembers THEN Return(PyStr(name)) ELSE Native("AttributeError")

\* include_member(obj, member, value, include)
include_member(o, member, value, include) ==
    IF include = "ALWAYS" THEN Return(PyBool(TRUE))
    ELSE IF ~Include("NON_NONE").ok THEN Include("NON_NONE")
    ELSE IF include = "NON_NONE" THEN Return(PyBool(value # PyNone))
    ELSE IF ~Include("NON_EMPTY").ok THEN Include("NON_EMPTY")
    ELSE IF include = "NON_EMPTY" THEN
        IF value = PyNone THEN Return(PyBool(FALSE))
        ELSE IF value.t \in {"str", "list", "tuple", "dict"}
             THEN Return(PyBool(Truthy(value)))
        ELSE Return(PyBool(TRUE))
    ELSE IF include = "NON_DEFAULT" THEN
        IF IsProperty(member) THEN Native("InclusionError")
        ELSE Return(PyBool(PyEq(value, GetAttr(o, member))))
    ELSE Native("InclusionError")

\* default_value(field)
default_value(field) ==
    IF field.default_factory # "MISSING" THEN ApplyFactory(field.default_factory)
    ELSE IF field.default # MISSING THEN Return(field.default)
    ELSE Return(PyNone)

\* is_required(field)
is_required(field) == field.default = MISSING /\ field.default_factory = "MISSING"

----------------------------------------------------------------------------
(* Capture engine                                                          *)

\* a reference to a container under construction
Ref(id) == [t |-> "ref", id |-> id]

\* a frame of the work stack; parent 0 is None
Frame(member, value, parent, key) ==
    [member |-> member, value |-> value, parent |-> parent, key |-> key]

\* the parameters a capture function takes
Params(fn) ==
    IF fn = "capture_obj"
    THEN [pos |-> 3, kw |-> {"dict_factory", "list_factory"}]
    ELSE [pos |-> 2, kw |-> {}]

\* whether a call with npos positional arguments and keywords kws binds
CallBinds(fn, npos, kws) == npos = Params(fn).pos /\ kws \subseteq Params(fn).kw

RECURSIVE Resolve(_, _)
Resolve(heap, v) ==
    CASE v.t = "ref" -> Resolve(heap, heap[v.id])
      [] v.t = "list" -> PyList([i \in 1..Len(v.items) |-> Resolve(heap, v.items[i])])
      [] v.t = "dict" ->
            PyDict([i \in 1..Len(v.entries) |->
                        <<v.entries[i][1], Resolve(heap, v.entries[i][2])>>])
      [] OTHER -> v

\* dataclasses.asdict of a plain dataclass instance
RECURSIVE dataclasses_asdict(_)
dataclasses_asdict(v) ==
    CASE v.t = "obj" ->
            PyDict([i \in 1..Len(v.cls.fields) |->
                        <<PyStr(v.cls.fields[i].name), dataclasses_asdict(v.vals[i])>>])
      [] v.t = "list" -> PyList([i \in 1..Len(v.items) |-> dataclasses_asdict(v.items[i])])
      [] v.t = "tuple" -> PyTuple([i \in 1..Len(v.elems) |-> dataclasses_asdict(v.elems[i])])
      [] v.t = "dict" ->
            PyDict([i \in 1..Len(v.entries) |->
                        <<v.entries[i][1], dataclasses_asdict(v.entries[i][2])>>])
      [] OTHER -> v

Reverse(s) == [i \in 1..Len(s) |-> s[Len(s) + 1 - i]]

RECURSIVE capture_obj(_, _, _, _)
RECURSIVE capture_loop(_, _, _, _)
RECURSIVE capture_store(_, _, _, _)
RECURSIVE asdict(_)
RECURSIVE WillowMixin_asdict(_, _)

\* capture_member(member, value, capture_fn=...): the work-stack loop
capture_member(member, value, capture_fn) ==
    capture_loop(<<Frame(member, value, 0, PyNone)>>, <<>>, PyNone,
                 IF capture_fn = Absent THEN "capture_obj" ELSE capture_fn)

\* what capture_obj hands back: the captured value, the stack with the
\* children pushed and the heap with the new container
Captured(out, stack, heap) == [ok |-> TRUE, out |-> out, stack |-> stack, heap |-> heap]

\* capture_obj pushing the items of a sequence in their own order
capture_obj_mut(member, value, stack, heap) ==
    CASE value.t = "obj" ->
            IF DerivesWillow(value.cls)
            THEN Then(WillowMixin_asdict(value, FALSE).res,
                      LAMBDA d : Captured(d, stack, heap))
            ELSE Captured(dataclasses_asdict(value), stack, heap)
      [] value.t \in {"list", "tuple"} ->
            LET src == IF value.t = "list" THEN value.items ELSE value.elems
                id == Len(heap) + 1
            IN  Captured(Ref(id),
                    stack \o [i \in 1..Len(src) |->
                                Frame(member, src[i], id, PyStr("list_item"))],
                    Append(heap, PyList(<<>>)))
      [] value.t = "dict" ->
            LET id == Len(heap) + 1
            IN  Captured(Ref(id),
                    stack \o [i \in 1..Len(value.entries) |->
                                Frame(member, value.entries[i][2], id, value.entries[i][1])],
                    Append(heap, PyDict(<<>>)))
      [] OTHER -> Captured(value, stack, heap)

\* capture_obj(member, value, stack)
capture_obj(member, value, stack, heap) ==
    CASE value.t = "obj" ->
            IF DerivesWillow(value.cls)
            THEN Then(WillowMixin_asdict(value, FALSE).res,
                      LAMBDA d : Captured(d, stack, heap))
            ELSE Captured(dataclasses_asdict(value), stack, heap)
      [] value.t \in {"list", "tuple"} ->
            LET src == IF value.t = "list" THEN value.items ELSE value.elems
                id == Len(heap) + 1
                rev == Reverse(src)
            IN  Captured(Ref(id),
                    stack \o [i \in 1..Len(rev) |->
                                Frame(member, rev[i], id, PyStr("list_item"))],
                    Append(heap, PyList(<<>>)))
      [] value.t = "dict" ->
            LET id == Len(heap) + 1
            IN  Captured(Ref(id),
                    stack \o [i \in 1..Len(value.entries) |->
                                Frame(member, value.entries[i][2], id, value.entries[i][1])],
                    Append(heap, PyDict(<<>>)))
      [] OTHER -> Captured(value, stack, heap)

\* the loop of capture_member: pop a frame, capture its value
capture_loop(stack, heap, result, fn) ==
    IF stack = <<>> THEN Return(Resolve(heap, result))
    ELSE IF ~CallBinds(fn, 3, {"dict_factory", "list_factory"})
    THEN Native("TypeError")
    ELSE capture_store(stack[Len(stack)],
                       capture_obj(stack[Len(stack)].member, stack[Len(stack)].value,
                                   SubSeq(stack, 1, Len(stack) - 1), heap),
                       result, fn)

\* the rest of the loop body: write the captured value c.out of frame fr into
\* its parent slot, and loop
capture_store(fr, c, result, fn) ==
    IF ~c.ok THEN c
    ELSE IF fr.parent = 0
    THEN capture_loop(c.stack, c.heap, c.out, fn)
    ELSE IF c.heap[fr.parent].t = "list" /\ fr.key = PyStr("list_item")
    THEN capture_loop(c.stack,
            [c.heap EXCEPT ![fr.parent] = PyList(Append(c.heap[fr.parent].items, c.out))],
            result, fn)
    ELSE IF c.heap[fr.parent].t = "dict" /\ fr.key.t = "str"
    THEN capture_loop(c.stack,
            [c.heap EXCEPT ![fr.parent] = DictSet(c.heap[fr.parent], fr.key, c.out)],
            result, fn)
    ELSE capture_loop(c.stack, c.heap, result, fn)

RECURSIVE asdict_members(_, _, _, _)
asdict_members(o, members, i, data) ==
    IF i > Len(members) THEN Return(data)
    ELSE Then(capture_member(members[i], GetAttr(o, members[i]), Absent),
              LAMBDA v : asdict_members(o, members, i + 1,
                                        DictSet(data, PyStr(members[i].name), v)))

\* asdict(obj): every field and public property, captured with capture_obj
asdict(o) == asdict_members(o, _members(o, TRUE, FALSE), 1, PyDict(<<>>))

----------------------------------------------------------------------------
(* Serialize orchestration                                                 *)

\* the ignore flag read as False for every member
IsIgnored_mut(member) == FALSE

\* metadata.get("ignore", False)
IsIgnored(member) == member.willow.ignore

RECURSIVE to_dict_members(_, _, _, _, _)

\* to_dict handing the serializer's return value on to the generic capture
to_dict_members_mut(o, members, i, include, data) ==
    IF i > Len(members) THEN Return(data)
    ELSE LET member == members[i]
             value == GetAttr(o, member)
             serializer == member.willow.serializer
         IN  IF IsIgnored(member)
             THEN to_dict_members(o, members, i + 1, include, data)
             ELSE Then(include_member(o, member, value, include), LAMBDA inc :
                 IF ~inc.b
                 THEN to_dict_members(o, members, i + 1, include, data)
                 ELSE Then(capture_member(member,
                                          IF serializer # Absent
                                          THEN ApplySerializer(serializer, value)
                                          ELSE value,
                                          IF serializer # Absent THEN Absent
                                          ELSE "serialize_obj"),
                           LAMBDA v :
                         to_dict_members(o, members, i + 1, include,
                                         DictSet(data, PyStr(member.name), v))))

to_dict_members(o, members, i, include, data) ==
    IF i > Len(members) THEN Return(data)
    ELSE LET member == members[i]
             value == GetAttr(o, member)
             serializer == member.willow.serializer
         IN  IF IsIgnored(member)
             THEN to_dict_members(o, members, i + 1, include, data)
             ELSE Then(include_member(o, member, value, include), LAMBDA inc :
                 IF ~inc.b
                 THEN to_dict_members(o, members, i + 1, include, data)
                 ELSE IF serializer # Absent
                 THEN to_dict_members(o, members, i + 1, include,
                         DictSet(data, PyStr(member.name), ApplySerializer(serializer, value)))
                 ELSE Then(capture_member(member, value, "serialize_obj"), LAMBDA v :
                         to_dict_members(o, members, i + 1, include,
                                         DictSet(data, PyStr(member.name), v))))

\* to_dict(obj, include, include_properties=True, include_private=False)
to_dict(o, include, include_properties, include_private) ==
    IF ~DerivesWillow(o.cls) THEN Native("AttributeError")  \* no obj._members
    ELSE to_dict_members(o, _members(o, include_properties, include_private), 1,
                    include, PyDict(<<>>))

\* JSON text: the document it encodes, or text that is no JSON at all
JsonText(doc) == [t |-> "text", doc |-> doc]

Malformed == [t |-> "text", malformed |-> TRUE]

\* whether json.dumps can encode the value
RECURSIVE Encodable(_)
Encodable(v) ==
    CASE v.t \in {"none", "bool", "int", "str"} -> TRUE
      [] v.t = "list" -> \A i \in 1..Len(v.items) : Encodable(v.items[i])
      [] v.t = "tuple" -> \A i \in 1..Len(v.elems) : Encodable(v.elems[i])
      [] v.t = "dict" ->
            \A i \in 1..Len(v.entries) :
                /\ v.entries[i][1].t \in {"str", "int"}
                /\ Encodable(v.entries[i][2])
      [] OTHER -> FALSE

\* the value json.loads gives back for the text json.dumps writes: a tuple
\* is written as an array, a number key as a string
RECURSIVE JsonDoc(_)
JsonDoc(v) ==
    CASE v.t = "list" -> PyList([i \in 1..Len(v.items) |-> JsonDoc(v.items[i])])
      [] v.t = "tuple" -> PyList([i \in 1..Len(v.elems) |-> JsonDoc(v.elems[i])])
      [] v.t = "dict" ->
            PyDict([i \in 1..Len(v.entries) |->
                <<IF v.entries[i][1].t = "int"
                  THEN PyStr(ToString(v.entries[i][1].i)) ELSE v.entries[i][1],
                  JsonDoc(v.entries[i][2])>>])
      [] OTHER -> v

\* json.dumps
dumps(v) == IF Encodable(v) THEN Return(JsonText(JsonDoc(v))) ELSE Native("TypeError")

\* json.loads
loads(s) == IF s = Malformed THEN Native("JSONDecodeError") ELSE Return(s.doc)

RECURSIVE to_json_members(_, _, _, _)
to_json_members(members, i, raw_data, data) ==
    IF i > Len(members) THEN data
    ELSE LET member == members[i]
             name == PyStr(member.name)
             key == willow_metadata(member, "json.key", name)
         IN  IF ~DictHas(raw_data, name)
             THEN to_json_members(members, i + 1, raw_data, data)
             ELSE to_json_members(members, i + 1, raw_data,
                                  DictSet(data, key, DictGet(raw_data, name)))

\* to_json(self, include, wrapper=None)
to_json(o, include, wrapper) ==
    Then(to_dict(o, include, TRUE, FALSE), LAMBDA raw_data :
        dumps(IF Truthy(wrapper)
              THEN PyDict(<<<<wrapper,
                     to_json_members(_members(o, TRUE, FALSE), 1, raw_data, PyDict(<<>>))>>>>)
              ELSE to_json_members(_members(o, TRUE, FALSE), 1, raw_data, PyDict(<<>>))))

\* Serializable.to_dict(self)
Serializable_to_dict(o) == to_dict(o, o.cls.inclusion, TRUE, FALSE)

\* Serializable.to_json(self, wrapper=None, include=Include.ALWAYS)
Serializable_to_json(o, wrapper, include) ==
    to_json(o,
            IF include # Absent THEN include ELSE o.cls.inclusion,
            IF Truthy(wrapper) THEN wrapper ELSE o.cls.json_wrapper)

----------------------------------------------------------------------------
(* Coercion engine                                                         *)

\* declared types of the model: "int", "str", "list", "Optional[int]",
\* "list[int]", "date", "Any"
ParameterizedTypes == {"list[int]", "tuple[int]"}

\* names bound at run time in module _deserialize_value
DeserializeValueGlobals ==
    {"is_dataclass", "datetime", "date", "time", "Enum", "get_args", "get_origin",
     "Union", "TYPE_CHECKING", "UUID", "get_type", "TYPE_TRANSFORMERS"}

\* isinstance(value, expected_type); a parameterized generic or Any raises
IsInstance(value, type) ==
    CASE type \in ParameterizedTypes \cup {"Any"} -> Native("TypeError")
      [] type = "int" -> Return(PyBool(value.t \in {"int", "bool"}))
      [] type = "str" -> Return(PyBool(value.t = "str"))
      [] type \in {"list", "List"} -> Return(PyBool(value.t = "list"))
      [] type \in {"tuple", "Tuple"} -> Return(PyBool(value.t = "tuple"))
      [] type = "dict" -> Return(PyBool(value.t = "dict"))
      [] type = "date" -> Return(PyBool(value.t = "date"))
      [] type = "Optional[int]" -> Return(PyBool(value.t \in {"int", "bool", "none"}))
      [] OTHER -> Return(PyBool(FALSE))

\* typing.get_origin
get_origin(type) ==
    CASE type \in {"list[int]", "List"} -> "list"  \* List is typing.List
      [] type \in {"tuple[int]", "Tuple"} -> "tuple"  \* Tuple is typing.Tuple
      [] type = "Optional[int]" -> "Union"
      [] OTHER -> "None"

\* the ISO dates of the model that date.fromisoformat accepts
IsoDates == {"2024-01-02"}

\* _deserialize(value, expected_type, origin)
_deserialize(value, type, origin) ==
    IF origin \in {"list", "tuple"} THEN
        \* get_type(expected_type, (Any,)) names Any
        IF "Any" \notin DeserializeValueGlobals THEN Native("NameError")
        ELSE Return(value)
    ELSE IF origin = "dict" THEN
        IF "Any" \notin DeserializeValueGlobals THEN Native("NameError")
        ELSE Return(value)
    ELSE IF origin = "Union" THEN Native("TypeError")  \* issubclass(Union, Enum)
    ELSE IF type = "date" THEN
        IF value.t # "str" THEN Native("TypeError")
        ELSE IF value.s \in IsoDates THEN Return(PyDate(value.s))
        ELSE Native("ValueError")
    ELSE IF "Any" \notin DeserializeValueGlobals THEN Native("NameError")
    ELSE Return(value)

\* deserialize_value(value, expected_type)
deserialize_value(value, type) ==
    LET inst == IsInstance(value, type)
        origin == get_origin(type)
    IN  IF ~inst.ok THEN inst
        ELSE IF inst.val.b THEN Return(value)
        ELSE IF origin = "Union" /\ value = PyNone THEN Return(PyNone)
        ELSE _deserialize(value, type, origin)

\* deserializers: "const" is lambda v: 0
ApplyDeserializer(fn, v) == Return(PyInt(0))

\* deserialize_field(field, data, expected_type)
deserialize_field(field, data, type) ==
    Catch(IF field.willow.deserializer # Absent
          THEN ApplyDeserializer(field.willow.deserializer, DictGet(data, PyStr(field.name)))
          ELSE deserialize_value(DictGet(data, PyStr(field.name)), type),
          LAMBDA exc : Raise("DeserializeError", field.name,
                             DictGet(data, PyStr(field.name)), exc))

----------------------------------------------------------------------------
(* Validated mixin and construction                                        *)

\* the outcome of an operation together with the validator invocations it
\* made (<<field name, value>>) and the keywords it passed to the
\* constructor (NoCall when the constructor was not invoked)
NoCall == [t |-> "nocall"]

Outcome(res, calls, kwargs) == [res |-> res, calls |-> calls, kwargs |-> kwargs]

\* Validated._on_validation(field, value, error=error)
Validated_on_validation(field, value, error) ==
    IF error # Absent
    THEN Raise("ValidationError", field.name, value, error)
    ELSE Return(PyNone)

\* _validate_field without the allow_none bypass
_validate_field_mut(validation, field, value) ==
    IF ~validation THEN [res |-> Return(PyNone), called |-> FALSE]
    ELSE IF field.willow.validator = Absent
    THEN [res |-> Validated_on_validation(field, value, Absent), called |-> FALSE]
    ELSE [res |-> Validated_on_validation(field, value,
                     IF ~ApplyValidator(field.willow.validator, value).ok
                     THEN ApplyValidator(field.willow.validator, value).exc
                     ELSE IF ~Truthy(ApplyValidator(field.willow.validator, value).val) THEN ""
                     ELSE Absent),
          called |-> TRUE]

\* Validated._validate_field(field, value): the outcome and whether the
\* validator was invoked; error is the wrapped exception ("" for a falsy
\* result), Absent when validation passed
_validate_field(validation, field, value) ==
    LET allow_none == field.willow.allow_none
        validator == field.willow.validator
        v == ApplyValidator(validator, value)
    IN  IF ~validation THEN [res |-> Return(PyNone), called |-> FALSE]
        ELSE IF (value = PyNone /\ allow_none) \/ validator = Absent
        THEN [res |-> Validated_on_validation(field, value, Absent), called |-> FALSE]
        ELSE [res |-> Validated_on_validation(field, value,
                         IF ~v.ok THEN v.exc
                         ELSE IF ~Truthy(v.val) THEN ""
                         ELSE Absent),
              called |-> TRUE]

\* Validated.__post_init__: validate every field in order
RECURSIVE Validated_post_init(_, _, _, _)
Validated_post_init(c, vals, i, calls) ==
    IF i > Len(c.fields) THEN [res |-> Return(PyNone), calls |-> calls]
    ELSE With(_validate_field(TRUE, c.fields[i], vals[i]), LAMBDA r :
            IF ~r.res.ok
            THEN [res |-> r.res,
                  calls |-> IF r.called THEN Append(calls, <<c.fields[i].name, vals[i]>>)
                            ELSE calls]
            ELSE Validated_post_init(c, vals, i + 1,
                    IF r.called THEN Append(calls, <<c.fields[i].name, vals[i]>>)
                    ELSE calls))

\* the attributes of a willow instance besides its fields: the private names
\* of class WillowMixin, stored under their mangled names
WillowAttrs ==
    {"_WillowMixin__willow_initialized", "_WillowMixin__willow_validation",
     "_WillowMixin__willow_asdict", "_WillowMixin__willow_fields",
     "_WillowMixin__willow_field_names", "_WillowMixin__willow_dirty_fields",
     "_WillowMixin__willow_properties", "_WillowMixin__willow_property_names"}

\* getattr(self, name, False) for a flag of the instance: False for a name
\* that is no attribute; the initialized flag is set by
\* WillowMixin.__post_init__, which Validated overrides
GetFlag(o, name) ==
    IF name \notin WillowAttrs THEN FALSE
    ELSE IF name = "_WillowMixin__willow_initialized" THEN ~Derives(o.cls, "Validated")
    ELSE TRUE

\* Validated._on_field_update(field, value, old_value)
Validated_on_field_update(o, field, value) ==
    _validate_field(o.willow_validation, field, value)

\* the class whose _on_field_update an instance resolves to: the first base
\* that defines one, WillowMixin otherwise
FieldUpdateOwner(c) ==
    IF \E i \in 1..Len(c.bases) : c.bases[i] \in {"Validated", "Hashable"}
    THEN c.bases[CHOOSE i \in 1..Len(c.bases) :
                    /\ c.bases[i] \in {"Validated", "Hashable"}
                    /\ \A j \in 1..(i - 1) : c.bases[j] \notin {"Validated", "Hashable"}]
    ELSE "WillowMixin"

\* self._willow_hook("_on_field_update", field, value, old_value): the
\* outcome, the instance as the hook leaves it, the validator calls it made
\* and the names it added to the dirty fields
on_field_update(o, field, value) ==
    CASE FieldUpdateOwner(o.cls) = "Validated" ->
            With(Validated_on_field_update(o, field, value), LAMBDA r :
                [res |-> IF r.res.ok THEN Return(PyNone) ELSE r.res,
                 self |-> o,
                 calls |-> IF r.called THEN <<<<field.name, value>>>> ELSE <<>>,
                 added |-> {}])
      [] FieldUpdateOwner(o.cls) = "Hashable" ->
            [res |-> Return(PyNone), self |-> [o EXCEPT !.willow_hash = PyNone],
             calls |-> <<>>, added |-> {}]
      [] OTHER ->
            [res |-> Return(PyNone), self |-> [o EXCEPT !.willow_asdict = PyNone],
             calls |-> <<>>, added |-> {field.name}]

\* HooksMixin.__setattr__(key, value): the outcome, the instance with the
\* attribute set, the validator calls made and the names added to the
\* dirty fields
HooksMixin_setattr(o, key, value) ==
    With([o EXCEPT !.vals[FieldIndex(o.cls, key)] = value], LAMBDA o2 :
        IF GetFlag(o2, "__willow_initialized") /\ HasField(o2.cls, key)
        THEN on_field_update(o2, o2.cls.fields[FieldIndex(o2.cls, key)], value)
        ELSE [res |-> Return(PyNone), self |-> o2, calls |-> <<>>, added |-> {}])

\* the value the generated __init__ binds to field i
InitValue(c, kwargs, i) ==
    LET field == c.fields[i]
    IN  IF DictHas(kwargs, PyStr(field.name)) THEN Return(DictGet(kwargs, PyStr(field.name)))
        ELSE IF field.default # MISSING THEN Return(field.default)
        ELSE IF field.default_factory # "MISSING" THEN ApplyFactory(field.default_factory)
        ELSE Native("TypeError")

\* the outcome of a call that raised before it reached the constructor
ThenOut(r, K(_)) == IF r.ok THEN K(r.val) ELSE Outcome(r, <<>>, NoCall)

\* the fields the generated __init__ could not bind
Unbound(c, kwargs) == {i \in 1..Len(c.fields) : ~InitValue(c, kwargs, i).ok}

\* cls(**kwargs): the dataclass __init__, then __post_init__
Construct(c, kwargs) ==
    IF \E k \in DictKeys(kwargs) : ~HasField(c, k.s)  \* unexpected keyword
    THEN Outcome(Native("TypeError"), <<>>, kwargs)
    ELSE IF \E i \in Unbound(c, kwargs) : is_required(c.fields[i])
    THEN Outcome(Native("TypeError"), <<>>, kwargs)
    ELSE IF Unbound(c, kwargs) # {}
    THEN Outcome(InitValue(c, kwargs, CHOOSE i \in Unbound(c, kwargs) :
                                        \A j \in Unbound(c, kwargs) : i <= j),
                 <<>>, kwargs)
    ELSE With([i \in 1..Len(c.fields) |-> InitValue(c, kwargs, i).val], LAMBDA vals :
        IF ~Derives(c, "Validated") THEN Outcome(Return(PyObj(c, vals)), <<>>, kwargs)
        ELSE With(Validated_post_init(c, vals, 1, <<>>), LAMBDA post :
            Outcome(IF post.res.ok THEN Return(PyObj(c, vals)) ELSE post.res,
                    post.calls, kwargs)))

----------------------------------------------------------------------------
(* Deserialize orchestration                                               *)

\* names bound in module _from_dict, the globalns given to get_type_hints
FromDictGlobals ==
    {"fields", "MISSING", "Field", "Any", "get_type_hints", "TYPE_CHECKING",
     "DeserializeError", "deserialize_field", "is_required", "willow_metadata"}

Builtins == {"bool", "int", "str", "set", "dict", "tuple", "list", "property", "None"}

\* the names in the string annotations of the willow mixins
MixinAnnotationNames(base) ==
    CASE base = "Serializable" -> {"ClassVar", "str", "None", "Include"}
      [] base = "Hashable" -> {"int", "None"}
      [] OTHER -> {}

WillowMixinAnnotationNames ==
    {"bool", "MutableDict", "None", "tuple", "Field", "set", "str", "dict", "property"}

\* the names get_type_hints evaluates for the class and its bases (the
\* class's own annotations are type objects already)
AnnotationNames(c) ==
    IF DerivesWillow(c)
    THEN WillowMixinAnnotationNames
            \cup UNION {MixinAnnotationNames(c.bases[i]) : i \in 1..Len(c.bases)}
    ELSE {}

\* get_type_hints(cls, globalns=globals())
get_type_hints(c) ==
    IF AnnotationNames(c) \subseteq FromDictGlobals \cup Builtins
    THEN Return(PyNone) ELSE Native("NameError")

RECURSIVE from_dict_fields(_, _, _, _)

\* from_dict calling the constructor as soon as a required field is missing
from_dict_fields_mut(c, data, i, kwargs) ==
    IF i > Len(c.fields) THEN Construct(c, kwargs)
    ELSE IF c.fields[i].willow.ignore
    THEN from_dict_fields(c, data, i + 1, kwargs)
    ELSE IF DictHas(data, PyStr(c.fields[i].name))
    THEN ThenOut(deserialize_field(c.fields[i], data, c.fields[i].type), LAMBDA v :
            from_dict_fields(c, data, i + 1, DictSet(kwargs, PyStr(c.fields[i].name), v)))
    ELSE IF is_required(c.fields[i]) THEN Construct(c, kwargs)
    ELSE from_dict_fields(c, data, i + 1,
            DictSet(kwargs, PyStr(c.fields[i].name), default_value(c.fields[i]).val))

from_dict_fields(c, data, i, kwargs) ==
    IF i > Len(c.fields) THEN Construct(c, kwargs)
    ELSE LET field == c.fields[i]
             name == PyStr(field.name)
         IN  IF Truthy(willow_metadata(field, "ignore", PyBool(FALSE)))
             THEN from_dict_fields(c, data, i + 1, kwargs)
             ELSE IF DictHas(data, name)
             THEN ThenOut(deserialize_field(field, data, field.type), LAMBDA v :
                     from_dict_fields(c, data, i + 1, DictSet(kwargs, name, v)))
             ELSE IF is_required(field)
             THEN Outcome(Raise("DeserializeError", field.name, PyNone, ""), <<>>, NoCall)
             ELSE IF field.default # MISSING
             THEN from_dict_fields(c, data, i + 1, DictSet(kwargs, name, field.default))
             ELSE ThenOut(Catch(ApplyFactory(field.default_factory), LAMBDA exc :
                                Raise("DeserializeError", field.name, PyNone, exc)),
                          LAMBDA v :
                     from_dict_fields(c, data, i + 1, DictSet(kwargs, name, v)))

\* from_dict(cls, data)
from_dict(c, data) ==
    ThenOut(get_type_hints(c), LAMBDA hints : from_dict_fields(c, data, 1, PyDict(<<>>)))

\* the aliases of a field as a list
AliasesOf(field) ==
    LET aliases == field.willow.json.aliases
    IN  CASE aliases.a = "absent" -> <<>>
          [] aliases.a = "str" -> <<aliases.s>>
          [] OTHER -> aliases.l

\* resolve_field_key trying the aliases before the key
resolve_field_key_mut(field, data) ==
    LET key == field.willow.json.key
        aliases == AliasesOf(field)
        present == {i \in 1..Len(aliases) : DictHas(data, PyStr(aliases[i]))}
    IN  IF present # {}
        THEN aliases[CHOOSE i \in present : \A j \in present : i <= j]
        ELSE IF key # Absent /\ key # "" /\ DictHas(data, PyStr(key)) THEN key
        ELSE field.name

\* resolve_field_key(field, data)
resolve_field_key(field, data) ==
    LET key == field.willow.json.key
        aliases == AliasesOf(field)
        present == {i \in 1..Len(aliases) : DictHas(data, PyStr(aliases[i]))}
    IN  IF key # Absent /\ key # "" /\ DictHas(data, PyStr(key)) THEN key
        ELSE IF present # {}
        THEN aliases[CHOOSE i \in present : \A j \in present : i <= j]
        ELSE field.name

RECURSIVE from_json_fields(_, _, _, _)
from_json_fields(c, _data, i, data) ==
    IF i > Len(c.fields) THEN from_dict(c, data)
    ELSE LET field == c.fields[i]
             key == PyStr(resolve_field_key(field, _data))
         IN  IF ~DictHas(_data, key) THEN from_json_fields(c, _data, i + 1, data)
             ELSE IF DictHas(data, PyStr(field.name))
             THEN Outcome(Native("KeyError"), <<>>, NoCall)
             ELSE from_json_fields(c, _data, i + 1,
                                   DictSet(data, PyStr(field.name), DictGet(_data, key)))

\* _data = json.loads(s); if wrapper: _data = _data[wrapper]
Unwrap(doc, wrapper) ==
    IF ~Truthy(wrapper) THEN Return(doc)
    ELSE IF doc.t # "dict" THEN Native("TypeError")
    ELSE IF ~DictHas(doc, wrapper) THEN Native("KeyError")
    ELSE Return(DictGet(doc, wrapper))

\* from_json(cls, s, wrapper=None)
from_json(c, s, wrapper) ==
    ThenOut(Catch(loads(s), LAMBDA exc : Raise("DeserializeError", NoField, PyNone, exc)),
            LAMBDA doc :
        ThenOut(Unwrap(doc, wrapper), LAMBDA _data :
            IF _data.t = "list"  \* no key is in a list of numbers
            THEN from_dict(c, PyDict(<<>>))
            ELSE IF _data.t # "dict" THEN Outcome(Native("TypeError"), <<>>, NoCall)
            ELSE from_json_fields(c, _data, 1, PyDict(<<>>))))

\* Serializable.from_json(cls, s, wrapper=None)
Serializable_from_json(c, s, wrapper) ==
    from_json(c, s, IF Truthy(wrapper) THEN wrapper ELSE c.json_wrapper)

----------------------------------------------------------------------------
(* The classes, instances and inputs of the model                          *)

NoObj == [t |-> "noobj"]

\* no capture loop is running
NoLoop == [t |-> "noloop"]

FieldNames == <<"a", "b", "c", "d">>

\* the field declarations a class of the codec model draws from: a required
\* int, an ignored int with a default and a serializer, a str with a
\* serializer and a json key, an optional int defaulting to None, a list with
\* a default factory, a str under the json key "userId", an ignored int
\* without a default
FieldPool(name) ==
    { Field(name, "int", MISSING, "MISSING", NoWillow),
      Field(name, "int", PyInt(5), "MISSING",
            Willow(TRUE, "wrap", Absent, FALSE, Absent, NoAliases)),
      Field(name, "str", MISSING, "MISSING",
            Willow(FALSE, "wrap", Absent, FALSE, "b", NoAliases)),
      Field(name, "Optional[int]", PyNone, "MISSING", NoWillow),
      Field(name, "list", MISSING, "list", NoWillow),
      Field(name, "str", MISSING, "MISSING",
            Willow(FALSE, Absent, Absent, FALSE, "userId", NoAliases)),
      Field(name, "int", MISSING, "MISSING",
            Willow(TRUE, Absent, Absent, FALSE, Absent, NoAliases)) }

\* the sequences of n fields, the i-th named FieldNames[i]
RECURSIVE FieldSeqs(_)
FieldSeqs(n) ==
    IF n = 0 THEN {<<>>}
    ELSE {Append(fs, f) : fs \in FieldSeqs(n - 1), f \in FieldPool(FieldNames[n])}

Label == Property("label", NoWillow, PyStr("x"))

\* plain dataclasses, and Serializable ones with and without a property
CodecClasses ==
    UNION { { Class("T", <<>>, fs, <<>>, PyNone, "ALWAYS"),
              Class("T", <<"Serializable">>, fs, <<>>, PyNone, "ALWAYS"),
              Class("T", <<"Serializable">>, fs, <<Label>>, PyNone, "ALWAYS") }
            : fs \in UNION {FieldSeqs(n) : n \in 1..MaxFields} }

\* a record class held in a field of another record
Inner ==
    Class("B", <<"Updatable">>, <<Field("x", "int", MISSING, "MISSING", NoWillow)>>,
          <<>>, PyNone, "ALWAYS")

\* the values a field of a declared type holds
ValuesOf(type) ==
    CASE type = "int" -> {PyInt(0), PyInt(1)}
      [] type = "B" -> {PyObj(Inner, <<PyInt(0)>>), PyObj(Inner, <<PyInt(1)>>)}
      [] type = "str" -> {PyStr(""), PyStr("abc")}
      [] type = "Optional[int]" -> {PyNone, PyInt(0), PyInt(1)}
      [] type = "list" -> {PyList(<<>>), PyList(<<PyInt(1)>>)}
      [] OTHER -> {PyNone}

\* the values an input mapping offers for a field: a value of the type and
\* one that cannot be coerced
InputsOf(type) ==
    CASE type = "int" -> {PyInt(1), PyStr("x")}
      [] type = "str" -> {PyStr("abc"), PyInt(7)}
      [] type = "Optional[int]" -> {PyNone, PyStr("x")}
      [] type = "list" -> {PyList(<<PyInt(1)>>), PyInt(7)}
      [] OTHER -> {PyNone}

\* every assignment of values to the fields of the class
RECURSIVE ValueSeqs(_, _)
ValueSeqs(c, n) ==
    IF n = 0 THEN {<<>>}
    ELSE {Append(vs, v) : vs \in ValueSeqs(c, n - 1), v \in ValuesOf(c.fields[n].type)}

Kwargs(c, vals) == PyDict([i \in 1..Len(c.fields) |-> <<PyStr(c.fields[i].name), vals[i]>>])

\* every input mapping: each field absent, or present with one of its inputs
RECURSIVE InputMaps(_, _)
InputMaps(c, n) ==
    IF n = 0 THEN {PyDict(<<>>)}
    ELSE LET name == PyStr(c.fields[n].name)
         IN  UNION { {d} \cup {DictSet(d, name, v) : v \in InputsOf(c.fields[n].type)}
                     : d \in InputMaps(c, n - 1) }

PolicyNames == {"ALWAYS", "NON_NULL", "NON_NONE", "NON_EMPTY", "NON_DEFAULT"}

Wrappers == {PyNone, PyStr("w")}

\* the object json.loads builds from the pairs of a JSON object, in order:
\* a repeated key keeps its place and takes the later value
RECURSIVE FromPairs(_, _)
FromPairs(pairs, d) ==
    IF pairs = <<>> THEN d
    ELSE FromPairs(Tail(pairs), DictSet(d, Head(pairs)[1], Head(pairs)[2]))

\* the input mapping with every field's entry under the field's json key
Rekey(c, d) ==
    FromPairs([i \in 1..Len(d.entries) |->
                <<willow_metadata(c.fields[FieldIndex(c, d.entries[i][1].s)], "json.key",
                                  d.entries[i][1]),
                  d.entries[i][2]>>],
              PyDict(<<>>))

\* the JSON texts given to from_json: no JSON at all, an array, an object,
\* an object under the wrapper key
JsonInputs(c) ==
    {Malformed, JsonText(PyList(<<PyInt(1)>>))}
        \cup {JsonText(Rekey(c, d)) : d \in InputMaps(c, Len(c.fields))}
        \cup {JsonText(PyDict(<<<<PyStr("w"), Rekey(c, d)>>>>)) : d \in InputMaps(c, Len(c.fields))}

Args(policy, wrapper) == [t |-> "args", policy |-> policy, wrapper |-> wrapper]

----------------------------------------------------------------------------
(* The codec: operations on one class and its instance                     *)

Init ==
    /\ cls \in CodecClasses
    /\ obj = NoObj
    /\ op = "idle"
    /\ arg = PyNone
    /\ ret = Return(PyNone)
    /\ vlog = <<>>
    /\ ctor = NoCall
    /\ loop = NoLoop
    /\ dirty_fields = {}
    /\ scopes = <<>>

\* the caller is synchronous: a call is made when no call is in progress
Idle == op = "idle"

\* the caller is inside the loop of capture_member
Running == op = "capture_member: while stack"

\* the call returns: its result, the validator calls it made and the
\* keywords it gave the constructor
Returns(name, a, out) ==
    /\ op' = name
    /\ arg' = a
    /\ ret' = out.res
    /\ vlog' = out.calls
    /\ ctor' = out.kwargs
    /\ UNCHANGED <<loop, dirty_fields, scopes>>

\* the call returns and a constructed instance replaces the current one
Binds(name, a, out) ==
    /\ Returns(name, a, out)
    /\ obj' = IF out.res.ok THEN out.res.val ELSE obj

\* the open scopes once a field was assigned inside them
Noted(ss, name) ==
    IF ss = <<>> THEN <<>>
    ELSE [i \in 1..Len(ss) |-> [ss[i] EXCEPT !.assigned = @ \cup {name}]]

\* the assignment returns and leaves the instance as its effect says
Assigns(a, e) ==
    /\ op' = "setattr"
    /\ arg' = a
    /\ ret' = e.res
    /\ obj' = e.self
    /\ vlog' = e.calls
    /\ ctor' = NoCall
    /\ dirty_fields' = dirty_fields \cup e.added
    /\ scopes' = Noted(scopes, a.elems[1].s)
    /\ UNCHANGED <<cls, loop>>

\* T(a=..., b=...)
New ==
    /\ Idle
    /\ scopes = <<>>
    /\ \E vals \in ValueSeqs(cls, Len(cls.fields)) :
        Binds("new", Kwargs(cls, vals), Construct(cls, Kwargs(cls, vals)))
    /\ UNCHANGED cls

\* to_dict(obj, Include.<policy>)
ToDict ==
    /\ Idle
    /\ obj # NoObj
    /\ \E policy \in PolicyNames :
        Returns("to_dict", PyStr(policy),
                Outcome(Then(Include(policy), LAMBDA include :
                            to_dict(obj, include.s, TRUE, FALSE)),
                        <<>>, NoCall))
    /\ UNCHANGED <<cls, obj>>

\* to_json(obj, Include.<policy>, wrapper=...)
ToJson ==
    /\ Idle
    /\ obj # NoObj
    /\ \E policy \in PolicyNames, wrapper \in Wrappers :
        Returns("to_json", Args(policy, wrapper),
                Outcome(Then(Include(policy), LAMBDA include :
                            to_json(obj, include.s, wrapper)),
                        <<>>, NoCall))
    /\ UNCHANGED <<cls, obj>>

\* from_dict(T, data)
FromDict ==
    /\ Idle
    /\ \E data \in InputMaps(cls, Len(cls.fields)) :
        Returns("from_dict", data, from_dict(cls, data))
    /\ UNCHANGED <<cls, obj>>

\* from_json(T, s, wrapper=...)
FromJson ==
    /\ Idle
    /\ \E s \in JsonInputs(cls), wrapper \in Wrappers :
        Returns("from_json", [t |-> "jargs", s |-> s, wrapper |-> wrapper],
                from_json(cls, s, wrapper))
    /\ UNCHANGED <<cls, obj>>

\* T.from_dict(obj.to_dict())
RoundTripDict ==
    /\ Idle
    /\ obj # NoObj
    /\ Derives(cls, "Serializable")
    /\ Returns("roundtrip_dict", PyNone,
               ThenOut(Serializable_to_dict(obj), LAMBDA d : from_dict(cls, d)))
    /\ UNCHANGED <<cls, obj>>

\* T.from_json(obj.to_json(wrapper=w), wrapper=w)
RoundTripJson ==
    /\ Idle
    /\ obj # NoObj
    /\ Derives(cls, "Serializable")
    /\ \E wrapper \in Wrappers :
        Returns("roundtrip_json", wrapper,
                ThenOut(Serializable_to_json(obj, wrapper, "ALWAYS"), LAMBDA j :
                    Serializable_from_json(cls, j, wrapper)))
    /\ UNCHANGED <<cls, obj>>

\* the call has returned and the caller drops its result
Discard ==
    /\ ~Idle
    /\ ~Running
    /\ op' = "idle"
    /\ arg' = PyNone
    /\ ret' = Return(PyNone)
    /\ vlog' = <<>>
    /\ ctor' = NoCall
    /\ loop' = NoLoop
    /\ UNCHANGED <<cls, obj, dirty_fields, scopes>>

Next ==
    \/ New
    \/ ToDict
    \/ ToJson
    \/ FromDict
    \/ FromJson
    \/ RoundTripDict
    \/ RoundTripJson
    \/ Discard

Spec == Init /\ [][Next]_vars

----------------------------------------------------------------------------
(* Key resolution: one field under a json key and aliases                  *)

\* the keys an input mapping may hold: the json key, two aliases, the
\* field's name and the empty string
KeyPool == <<"userId", "uid", "u2", "user_id", "">>

\* the json.key and json.aliases declarations of the field
JsonKeys == {Absent, "", "userId"}

JsonAliases ==
    {NoAliases, AliasStr("uid"), AliasList(<<"uid", "u2">>),
     AliasList(<<"u2", "uid">>), AliasList(<<>>)}

\* plain dataclasses with the one field user_id: int
KeyClasses ==
    { Class("T", <<>>,
            <<Field("user_id", "int", MISSING, "MISSING",
                    Willow(FALSE, Absent, Absent, FALSE, key, aliases))>>,
            <<>>, PyNone, "ALWAYS")
      : key \in JsonKeys, aliases \in JsonAliases }

\* the input mappings: at most MaxKeys keys of the pool, in pool order, the
\* i-th key of the pool holding the number i
KeyInputs ==
    { PyDict(SelectSeq([i \in 1..Len(KeyPool) |-> <<PyStr(KeyPool[i]), PyInt(i)>>],
                       LAMBDA e : e[2].i \in ks))
      : ks \in {ks \in SUBSET (1..Len(KeyPool)) : Cardinality(ks) <= MaxKeys} }

InitKey ==
    /\ cls \in KeyClasses
    /\ obj = NoObj
    /\ op = "idle"
    /\ arg = PyNone
    /\ ret = Return(PyNone)
    /\ vlog = <<>>
    /\ ctor = NoCall
    /\ loop = NoLoop
    /\ dirty_fields = {}
    /\ scopes = <<>>

\* resolve_field_key(field, data)
ResolveFieldKey ==
    /\ Idle
    /\ \E data \in KeyInputs :
        Returns("resolve_field_key", data,
                Outcome(Return(PyStr(resolve_field_key(cls.fields[1], data))),
                        <<>>, NoCall))
    /\ UNCHANGED <<cls, obj>>

\* from_json(T, s) on the JSON text of an input mapping
FromJsonKeyed ==
    /\ Idle
    /\ \E data \in KeyInputs :
        Returns("from_json", [t |-> "jargs", s |-> JsonText(data), wrapper |-> PyNone],
                from_json(cls, JsonText(data), PyNone))
    /\ UNCHANGED <<cls, obj>>

NextKey ==
    \/ ResolveFieldKey
    \/ FromJsonKeyed
    \/ Discard

SpecKey == InitKey /\ [][NextKey]_vars

----------------------------------------------------------------------------
(* Validated records                                                       *)

\* the validator and allow_none declarations of a field
ValidatorPool(name) ==
    { Field(name, "Optional[int]", MISSING, "MISSING",
            Willow(FALSE, Absent, validator, allow_none, Absent, NoAliases))
      : validator \in {Absent, "positive", "nonempty", "boom"},
        allow_none \in BOOLEAN }

RECURSIVE ValidatorSeqs(_)
ValidatorSeqs(n) ==
    IF n = 0 THEN {<<>>}
    ELSE {Append(fs, f) : fs \in ValidatorSeqs(n - 1), f \in ValidatorPool(FieldNames[n])}

ValidatedClasses ==
    { Class("T", <<"Validated">>, fs, <<>>, PyNone, "ALWAYS")
      : fs \in UNION {ValidatorSeqs(n) : n \in 1..MaxFields} }

InitValidated ==
    /\ cls \in ValidatedClasses
    /\ obj = NoObj
    /\ op = "idle"
    /\ arg = PyNone
    /\ ret = Return(PyNone)
    /\ vlog = <<>>
    /\ ctor = NoCall
    /\ loop = NoLoop
    /\ dirty_fields = {}
    /\ scopes = <<>>

\* obj.<field> = value on a constructed record
SetAttr ==
    /\ Idle
    /\ obj # NoObj
    /\ \E i \in 1..Len(cls.fields) :
        \E value \in ValuesOf(cls.fields[i].type) :
            Assigns(PyTuple(<<PyStr(cls.fields[i].name), value>>),
                    HooksMixin_setattr(obj, cls.fields[i].name, value))

NextValidated ==
    \/ New
    \/ SetAttr
    \/ Discard

SpecValidated == InitValidated /\ [][NextValidated]_vars

----------------------------------------------------------------------------
(* Properties of the codec                                                 *)

\* no field of the class is ignored or carries a serializer
PlainFields(c) ==
    \A i \in 1..Len(c.fields) :
        ~c.fields[i].willow.ignore /\ c.fields[i].willow.serializer = Absent

\* the non-ignored members to_dict decides on
Visible(o) == SelectSeq(_members(o, TRUE, FALSE), LAMBDA m : ~m.willow.ignore)

\* C1: for every instance r of a Serializable class with policy ALWAYS and no
\* ignored field, to_dict(r) completes and from_dict(T, to_dict(r)) is an
\* instance whose every field equals the field of r
C1_DictRoundTrip ==
    op = "roundtrip_dict" /\ cls.inclusion = "ALWAYS" /\ PlainFields(cls)
        => ret.ok /\ ret.val.cls = cls /\ ret.val.vals = obj.vals

\* the round trip of C1 stops in to_dict, whose capture loop calls
\* serialize_obj with arguments it does not take
C1_Witness ==
    /\ op = "roundtrip_dict" /\ cls.inclusion = "ALWAYS" /\ PlainFields(cls)
    /\ ~ret.ok /\ ret.exc = "TypeError"

\* C2: to_json writes every included member under its json key, and
\* from_json(T, to_json(r)) with the same wrapper is an instance equal to r
C2_JsonRoundTrip ==
    op = "roundtrip_json" /\ PlainFields(cls)
        => ret.ok /\ ret.val = obj

\* the round trip of C2 on a class whose field is written under "userId"
\* stops in to_json
C2_Witness ==
    /\ op = "roundtrip_json" /\ PlainFields(cls)
    /\ \E i \in 1..Len(cls.fields) : cls.fields[i].willow.json.key = "userId"
    /\ ~ret.ok /\ ret.exc = "TypeError"

\* C4: under NON_NULL, to_dict returns a mapping that holds a non-ignored
\* member exactly when the member's value is not None
C4_NonNullOmitsNone ==
    op = "to_dict" /\ arg = PyStr("NON_NULL")
        => /\ ret.ok
           /\ \A i \in 1..Len(Visible(obj)) :
                DictHas(ret.val, PyStr(Visible(obj)[i].name))
                    <=> GetAttr(obj, Visible(obj)[i]) # PyNone

\* to_dict under NON_NULL on a record holding None raises AttributeError
C4_Witness ==
    /\ op = "to_dict" /\ arg = PyStr("NON_NULL")
    /\ \E i \in 1..Len(obj.vals) : obj.vals[i] = PyNone /\ ~cls.fields[i].willow.ignore
    /\ ~ret.ok /\ ret.exc = "AttributeError"

\* None and the empty str, list, tuple and mapping
IsEmpty(v) ==
    \/ v = PyNone
    \/ v.t \in {"str", "list", "tuple", "dict"} /\ ~Truthy(v)

\* C5: under NON_EMPTY, to_dict returns a mapping that holds a non-ignored
\* member exactly when its value is neither None nor an empty str, list,
\* tuple or mapping; 0 and False are held
C5_NonEmptyOmitsEmpty ==
    op = "to_dict" /\ arg = PyStr("NON_EMPTY")
        => /\ ret.ok
           /\ \A i \in 1..Len(Visible(obj)) :
                DictHas(ret.val, PyStr(Visible(obj)[i].name))
                    <=> ~IsEmpty(GetAttr(obj, Visible(obj)[i]))

\* to_dict under NON_EMPTY on a record holding 0 raises AttributeError
C5_Witness ==
    /\ op = "to_dict" /\ arg = PyStr("NON_EMPTY")
    /\ \E i \in 1..Len(obj.vals) : obj.vals[i] = PyInt(0) /\ ~cls.fields[i].willow.ignore
    /\ ~ret.ok /\ ret.exc = "AttributeError"

\* C6: under NON_DEFAULT, to_dict on a record without properties returns a
\* mapping that holds a non-ignored field exactly when its value differs
\* from the declared default (the factory's result when one is declared)
C6_NonDefaultOmitsDefault ==
    op = "to_dict" /\ arg = PyStr("NON_DEFAULT") /\ cls.props = <<>>
        => /\ ret.ok
           /\ \A i \in 1..Len(cls.fields) :
                ~cls.fields[i].willow.ignore
                    => (DictHas(ret.val, PyStr(cls.fields[i].name))
                            <=> ~PyEq(obj.vals[i], default_value(cls.fields[i]).val))

\* to_dict under NON_DEFAULT on a record whose field holds its default
\* raises AttributeError
C6_Witness ==
    /\ op = "to_dict" /\ arg = PyStr("NON_DEFAULT") /\ cls.props = <<>>
    /\ \E i \in 1..Len(cls.fields) :
        /\ ~cls.fields[i].willow.ignore
        /\ ~is_required(cls.fields[i])
        /\ PyEq(obj.vals[i], default_value(cls.fields[i]).val)
    /\ ~ret.ok /\ ret.exc = "AttributeError"

\* C7: to_dict under NON_DEFAULT on a record that exposes a public property
\* raises InclusionError
C7_NonDefaultRejectsProperty ==
    op = "to_dict" /\ arg = PyStr("NON_DEFAULT") /\ cls.props # <<>>
        => ~ret.ok /\ ret.exc = "InclusionError"

\* to_dict under NON_DEFAULT on a record with a public property raises
\* AttributeError
C7_Witness ==
    /\ op = "to_dict" /\ arg = PyStr("NON_DEFAULT") /\ cls.props # <<>>
    /\ ~ret.ok /\ ret.exc = "AttributeError"

\* the non-ignored required fields the input mapping lacks
MissingRequired(c, data) ==
    {i \in 1..Len(c.fields) :
        /\ ~c.fields[i].willow.ignore
        /\ is_required(c.fields[i])
        /\ ~DictHas(data, PyStr(c.fields[i].name))}

\* every value of the input mapping is an instance of its field's type
WellTyped(c, data) ==
    \A i \in 1..Len(c.fields) :
        DictHas(data, PyStr(c.fields[i].name))
            => IsInstance(DictGet(data, PyStr(c.fields[i].name)), c.fields[i].type).val.b

\* C8: from_dict on an input mapping that lacks a non-ignored field with
\* neither default nor default factory raises DeserializeError naming such
\* a field, and constructs no instance
C8_RequiredFieldEnforced ==
    op = "from_dict" /\ MissingRequired(cls, arg) # {} /\ WellTyped(cls, arg)
        => /\ ~ret.ok
           /\ ret.exc = "DeserializeError"
           /\ \E i \in MissingRequired(cls, arg) : ret.field = cls.fields[i].name
           /\ ctor = NoCall

\* from_dict(T, {}) on a Serializable class with a required field raises
\* NameError
C8_Witness ==
    /\ op = "from_dict" /\ arg = PyDict(<<>>) /\ MissingRequired(cls, arg) # {}
    /\ Derives(cls, "Serializable")
    /\ ~ret.ok /\ ret.exc = "NameError"

\* the object the JSON text holds, under the wrapper key when one is given
Unwrapped(text, wrapper) ==
    IF Truthy(wrapper) THEN DictGet(text.doc, wrapper) ELSE text.doc

\* C10: every key of a mapping to_dict returns is the name of a non-ignored
\* member, every key of the object to_json writes is the json key of a
\* non-ignored member, and from_dict and from_json pass the constructor no
\* keyword that names an ignored field, under every policy and input
C10_IgnoredNeverVisible ==
    /\ op = "to_dict" /\ ret.ok
        => \A k \in DictKeys(ret.val) :
            \E i \in 1..Len(Visible(obj)) : k = PyStr(Visible(obj)[i].name)
    /\ op = "to_json" /\ ret.ok
        => \A k \in DictKeys(Unwrapped(ret.val, arg.wrapper)) :
            \E i \in 1..Len(Visible(obj)) :
                k = willow_metadata(Visible(obj)[i], "json.key", PyStr(Visible(obj)[i].name))
    /\ op \in {"from_dict", "from_json", "roundtrip_dict", "roundtrip_json"} /\ ctor # NoCall
        => \A i \in 1..Len(cls.fields) :
            cls.fields[i].willow.ignore => ~DictHas(ctor, PyStr(cls.fields[i].name))

\* to_dict returned a mapping for a record with an ignored field and a
\* field it writes
C10_Witness ==
    /\ op = "to_dict" /\ ret.ok /\ ret.val.entries # <<>>
    /\ \E i \in 1..Len(cls.fields) : cls.fields[i].willow.ignore

----------------------------------------------------------------------------
(* Properties of key resolution                                            *)

\* the first alias, in declared order, the input mapping holds; the field's
\* name when it holds none
RECURSIVE FirstPresent(_, _, _)
FirstPresent(aliases, data, name) ==
    IF aliases = <<>> THEN name
    ELSE IF DictHas(data, PyStr(Head(aliases))) THEN Head(aliases)
    ELSE FirstPresent(Tail(aliases), data, name)

\* the key the field's value is read from: the non-empty explicit key when
\* the input holds it, else the first alias present, else the field's name
ExpectedKey(field, data) ==
    IF /\ field.willow.json.key # Absent
       /\ field.willow.json.key # ""
       /\ DictHas(data, PyStr(field.willow.json.key))
    THEN field.willow.json.key
    ELSE FirstPresent(AliasesOf(field), data, field.name)

\* the same, for any explicit key the input holds
ExpectedKeyAnyKey(field, data) ==
    IF /\ field.willow.json.key # Absent
       /\ DictHas(data, PyStr(field.willow.json.key))
    THEN field.willow.json.key
    ELSE FirstPresent(AliasesOf(field), data, field.name)

----------------------------------------------------------------------------
(* Properties of Validated records                                         *)

\* the field's validator returns a falsy result or raises for the value,
\* and the value is not a None that allow_none lets through
Fails(field, value) ==
    /\ field.willow.validator # Absent
    /\ ~(value = PyNone /\ field.willow.allow_none)
    /\ \/ ~ApplyValidator(field.willow.validator, value).ok
       \/ ~Truthy(ApplyValidator(field.willow.validator, value).val)

\* the fields of the class whose constructor argument fails validation
Failing(c, kwargs) ==
    {i \in 1..Len(c.fields) : Fails(c.fields[i], DictGet(kwargs, PyStr(c.fields[i].name)))}

\* C9: constructing a Validated record raises ValidationError carrying a
\* failing field and its value whenever some field's validator returns a
\* falsy result or raises, and returns the instance otherwise; a field
\* holding None under allow_none=True has no validator call and is never
\* the field of the error
C9_ValidatorEnforcement ==
    op = "new" /\ Derives(cls, "Validated")
        => /\ Failing(cls, arg) # {}
                => /\ ~ret.ok
                   /\ ret.exc = "ValidationError"
                   /\ \E i \in Failing(cls, arg) :
                        /\ ret.field = cls.fields[i].name
                        /\ ret.value = DictGet(arg, PyStr(cls.fields[i].name))
                        /\ \A j \in Failing(cls, arg) : i <= j
           /\ Failing(cls, arg) = {} => ret.ok /\ ret.val.vals = [i \in 1..Len(cls.fields) |-> arg.entries[i][2]]
           /\ \A i \in 1..Len(cls.fields) :
                cls.fields[i].willow.allow_none /\ arg.entries[i][2] = PyNone
                    => /\ \A k \in 1..Len(vlog) : vlog[k][1] # cls.fields[i].name
                       /\ ret.ok \/ ret.field # cls.fields[i].name

\* a record whose first field holds None under allow_none=True with a
\* validator that always raises, and whose second field fails its validator
C9_Witness ==
    /\ op = "new" /\ Derives(cls, "Validated") /\ Len(cls.fields) = 2
    /\ cls.fields[1].willow.allow_none /\ cls.fields[1].willow.validator = "boom"
    /\ arg.entries[1][2] = PyNone
    /\ cls.fields[2].willow.validator = "positive" /\ arg.entries[2][2] = PyInt(0)
    /\ ~ret.ok /\ ret.exc = "ValidationError" /\ ret.field = "b" /\ ret.value = PyInt(0)

----------------------------------------------------------------------------
(* Properties of deserialization                                           *)

\* every non-ignored field of the class has an entry in the input mapping
SuppliesOthers(c, data) ==
    \A i \in 1..Len(c.fields) :
        ~c.fields[i].willow.ignore => DictHas(data, PyStr(c.fields[i].name))

\* C11: from_dict on an input mapping that supplies every field but the
\* ignored ones returns an instance, whether or not an ignored field has a
\* default or a default factory
C11_IgnoredNeverRequired ==
    (/\ op = "from_dict"
     /\ \E i \in 1..Len(cls.fields) : cls.fields[i].willow.ignore
     /\ SuppliesOthers(cls, arg) /\ WellTyped(cls, arg))
        => ret.ok /\ ret.val.t = "obj"

\* from_dict on a plain dataclass with an ignored field that has no default:
\* every other field is supplied and the constructor raises TypeError
C11_Witness ==
    /\ op = "from_dict" /\ ~DerivesWillow(cls)
    /\ \E i \in 1..Len(cls.fields) :
        cls.fields[i].willow.ignore /\ is_required(cls.fields[i])
    /\ SuppliesOthers(cls, arg) /\ WellTyped(cls, arg)
    /\ ~ret.ok /\ ret.exc = "TypeError" /\ ctor # NoCall

\* the error kinds of the library
WillowErrors == {"DeserializeError", "ValidationError", "InclusionError"}

\* C12: every failing call of from_dict or from_json ends with a
\* DeserializeError or another willow error, never a native exception
C12_ClosedTaxonomy ==
    op \in {"from_dict", "from_json"} /\ ~ret.ok => ret.exc \in WillowErrors

\* from_json on a JSON object without the wrapper key raises KeyError
C12_Witness ==
    /\ op = "from_json" /\ arg.wrapper = PyStr("w")
    /\ arg.s # Malformed /\ arg.s.doc.t = "dict" /\ ~DictHas(arg.s.doc, PyStr("w"))
    /\ ~ret.ok /\ ret.exc = "KeyError"

\* the JSON text holds an object (under the wrapper key, when one is given)
HoldsObject(a) ==
    /\ a.s # Malformed
    /\ Unwrap(a.s.doc, a.wrapper).ok
    /\ Unwrap(a.s.doc, a.wrapper).val.t = "dict"

\* two non-ignored fields of the class take their value from the same key
\* of the input object
Collides(c, _data) ==
    \E i, j \in 1..Len(c.fields) :
        /\ i < j
        /\ ~c.fields[i].willow.ignore /\ ~c.fields[j].willow.ignore
        /\ resolve_field_key(c.fields[i], _data) = resolve_field_key(c.fields[j], _data)
        /\ DictHas(_data, PyStr(resolve_field_key(c.fields[i], _data)))

\* C13: from_json on an object in which two fields resolve to the same key
\* raises DeserializeError and constructs no instance
C13_DuplicateKeyDetected ==
    (/\ op = "from_json" /\ HoldsObject(arg)
     /\ Collides(cls, Unwrap(arg.s.doc, arg.wrapper).val))
        => ~ret.ok /\ ret.exc = "DeserializeError" /\ ctor = NoCall

\* from_json returned an instance whose two fields were read from one key
C13_Witness ==
    /\ op = "from_json" /\ HoldsObject(arg)
    /\ Collides(cls, Unwrap(arg.s.doc, arg.wrapper).val)
    /\ ret.ok /\ ret.val.vals[1] = ret.val.vals[2]

\* the names of the non-ignored fields of the class
Assembled(c) ==
    {PyStr(c.fields[i].name) : i \in {i \in 1..Len(c.fields) : ~c.fields[i].willow.ignore}}

\* C14: from_dict and from_json invoke the constructor only with the
\* keyword of every non-ignored field assembled; a field that fails raises
\* before the constructor is invoked, and an instance is returned only by the
\* constructor, holding the assembled values
C14_AllOrNothing ==
    op \in {"from_dict", "from_json", "roundtrip_dict", "roundtrip_json"}
        => /\ ctor # NoCall => DictKeys(ctor) = Assembled(cls)
           /\ ctor = NoCall => ~ret.ok
           /\ ~ret.ok /\ ret.exc = "DeserializeError" => ctor = NoCall
           /\ ret.ok =>
                /\ ret.val.t = "obj"
                /\ \A i \in 1..Len(cls.fields) :
                    ~cls.fields[i].willow.ignore
                        => ret.val.vals[i] = DictGet(ctor, PyStr(cls.fields[i].name))

\* from_dict resolved its first field, failed on the second and did not
\* invoke the constructor
C14_Witness ==
    /\ op = "from_dict" /\ Len(cls.fields) = 2
    /\ ~cls.fields[1].willow.ignore /\ DictHas(arg, PyStr("a"))
    /\ ~ret.ok /\ ret.exc = "DeserializeError" /\ ret.field = "b"
    /\ ctor = NoCall

\* the members of o under a serializer that to_dict, called with the policy,
\* includes
Serialized(o, policy) ==
    {i \in 1..Len(Visible(o)) :
        /\ Visible(o)[i].willow.serializer # Absent
        /\ include_member(o, Visible(o)[i], GetAttr(o, Visible(o)[i]), policy).ok
        /\ include_member(o, Visible(o)[i], GetAttr(o, Visible(o)[i]), policy).val.b}

\* C24: the mapping to_dict returns holds, under the name of every included
\* member with a serializer, exactly the value serializer(raw value)
\* returned: a tuple the serializer returns stays a tuple
C24_SerializerOverride ==
    op = "to_dict" /\ ret.ok
        => \A i \in Serialized(obj, arg.s) :
            /\ DictHas(ret.val, PyStr(Visible(obj)[i].name))
            /\ DictGet(ret.val, PyStr(Visible(obj)[i].name))
                = ApplySerializer(Visible(obj)[i].willow.serializer,
                                  GetAttr(obj, Visible(obj)[i]))

\* to_dict returned a mapping that holds the tuple a serializer made of a
\* field's value
C24_Witness ==
    /\ op = "to_dict" /\ ret.ok
    /\ \E i \in Serialized(obj, arg.s) :
        /\ GetAttr(obj, Visible(obj)[i]) = PyStr("abc")
        /\ DictGet(ret.val, PyStr(Visible(obj)[i].name)) = PyTuple(<<PyStr("abc")>>)

----------------------------------------------------------------------------
(* The declared inclusion policy: Serializable.to_dict and to_json         *)

\* a required int, an optional int defaulting to None, and an optional int
\* with a serializer
PolicyPool(name) ==
    { Field(name, "int", MISSING, "MISSING", NoWillow),
      Field(name, "Optional[int]", PyNone, "MISSING", NoWillow),
      Field(name, "Optional[int]", PyNone, "MISSING",
            Willow(FALSE, "wrap", Absent, FALSE, Absent, NoAliases)) }

RECURSIVE PolicySeqs(_)
PolicySeqs(n) ==
    IF n = 0 THEN {<<>>}
    ELSE {Append(fs, f) : fs \in PolicySeqs(n - 1), f \in PolicyPool(FieldNames[n])}

\* Serializable classes declaring __inclusion__
PolicyClasses ==
    { Class("T", <<"Serializable">>, fs, <<>>, PyNone, inclusion)
      : fs \in UNION {PolicySeqs(n) : n \in 1..MaxFields},
        inclusion \in IncludeMembers }

\* marker of a keyword argument the caller leaves out
Omitted == "<omitted>"

\* the include parameter of Serializable.to_json as the call binds it
BindInclude(given) == IF given = Omitted THEN "ALWAYS" ELSE given

InitPolicy ==
    /\ cls \in PolicyClasses
    /\ obj = NoObj
    /\ op = "idle"
    /\ arg = PyNone
    /\ ret = Return(PyNone)
    /\ vlog = <<>>
    /\ ctor = NoCall
    /\ loop = NoLoop
    /\ dirty_fields = {}
    /\ scopes = <<>>

\* obj.to_dict()
SerializableToDict ==
    /\ Idle
    /\ obj # NoObj
    /\ Returns("Serializable.to_dict", PyNone,
               Outcome(Serializable_to_dict(obj), <<>>, NoCall))
    /\ UNCHANGED <<cls, obj>>

\* obj.to_json() and obj.to_json(include=Include.<policy>)
SerializableToJson ==
    /\ Idle
    /\ obj # NoObj
    /\ \E given \in {Omitted} \cup IncludeMembers :
        Returns("Serializable.to_json", Args(given, PyNone),
                Outcome(Serializable_to_json(obj, PyNone, BindInclude(given)),
                        <<>>, NoCall))
    /\ UNCHANGED <<cls, obj>>

NextPolicy ==
    \/ New
    \/ SerializableToDict
    \/ SerializableToJson
    \/ Discard

SpecPolicy == InitPolicy /\ [][NextPolicy]_vars

\* the policy the call is to apply: the override when one is given, else the
\* policy the class declares
Effective(given, c) == IF given # Omitted THEN given ELSE c.inclusion

\* C15: obj.to_dict() applies the policy the class declares, and obj.to_json
\* applies the per-call override when one is given and the declared policy
\* otherwise: it returns what to_json under that policy returns
C15_EffectivePolicy ==
    /\ op = "Serializable.to_dict" => ret = to_dict(obj, cls.inclusion, TRUE, FALSE)
    /\ op = "Serializable.to_json"
        => ret = to_json(obj, Effective(arg.policy, cls), PyNone)

\* obj.to_json() without an include argument on a class declaring NON_NULL
\* wrote a field holding None
C15_Witness ==
    /\ op = "Serializable.to_json" /\ arg.policy = Omitted
    /\ cls.inclusion = "NON_NULL"
    /\ obj.vals[1] = PyNone
    /\ ret.ok /\ DictHas(ret.val.doc, PyStr("a"))

\* the field and the value of the assignment in arg
Assigned == cls.fields[FieldIndex(cls, arg.elems[1].s)]

\* C18: assigning a field of a constructed Validated record applies the
\* field's validator to the new value, and raises ValidationError naming the
\* field and the value when the value fails the validator
C18_ValidationOnUpdate ==
    op = "setattr" /\ Derives(cls, "Validated")
        => /\ (/\ Assigned.willow.validator # Absent
               /\ ~(arg.elems[2] = PyNone /\ Assigned.willow.allow_none))
                => vlog = <<<<Assigned.name, arg.elems[2]>>>>
           /\ Fails(Assigned, arg.elems[2])
                => /\ ~ret.ok
                   /\ ret.exc = "ValidationError"
                   /\ ret.field = Assigned.name
                   /\ ret.value = arg.elems[2]

\* an assignment of a value that fails the field's validator returned, and
\* the record holds the value
C18_Witness ==
    /\ op = "setattr" /\ Derives(cls, "Validated")
    /\ Fails(Assigned, arg.elems[2])
    /\ ret.ok
    /\ obj.vals[FieldIndex(cls, Assigned.name)] = arg.elems[2]

----------------------------------------------------------------------------
(* Updatable records: asdict, update and copy                              *)

\* the outcome of a method together with the instance as the call leaves it
Effect(res, self) == [res |-> res, self |-> self]

\* a value after a capture walked through it: capture_obj called asdict()
\* on every willow instance it met, inside sequences and mappings too
RECURSIVE Visited(_)
Visited(v) ==
    CASE v.t = "obj" -> IF DerivesWillow(v.cls) THEN WillowMixin_asdict(v, FALSE).self ELSE v
      [] v.t = "list" -> PyList([i \in 1..Len(v.items) |-> Visited(v.items[i])])
      [] v.t = "tuple" -> PyTuple([i \in 1..Len(v.elems) |-> Visited(v.elems[i])])
      [] v.t = "dict" ->
            PyDict([i \in 1..Len(v.entries) |-> <<v.entries[i][1], Visited(v.entries[i][2])>>])
      [] OTHER -> v

\* WillowMixin.asdict(refresh=...): the cached mapping itself; computing it
\* leaves the instances held in the fields visited
WillowMixin_asdict(o, refresh) ==
    IF refresh \/ o.willow_asdict = PyNone
    THEN With(asdict(o), LAMBDA d :
            IF d.ok
            THEN Effect(d, [o EXCEPT !.willow_asdict = d.val,
                                     !.vals = [i \in 1..Len(o.vals) |-> Visited(o.vals[i])]])
            ELSE Effect(d, o))
    ELSE Effect(Return(o.willow_asdict), o)

\* dict.update(kwargs)
RECURSIVE DictUpdate(_, _)
DictUpdate(d, kwargs) ==
    IF kwargs.entries = <<>> THEN d
    ELSE DictUpdate(DictSet(d, kwargs.entries[1][1], kwargs.entries[1][2]),
                    PyDict(Tail(kwargs.entries)))

\* copy.deepcopy of a tree of values
deepcopy(v) == v

\* Updatable.update(use_deepcopy=..., **kwargs): data is the mapping asdict
\* returned, updated in place
Updatable_update(o, use_deepcopy, kwargs) ==
    With(WillowMixin_asdict(o, FALSE), LAMBDA d :
        IF ~d.res.ok THEN d
        ELSE With(DictUpdate(d.res.val, kwargs), LAMBDA data :
            Effect(Construct(o.cls, IF use_deepcopy THEN deepcopy(data) ELSE data).res,
                   [d.self EXCEPT !.willow_asdict = data])))

\* Updatable.copy()
Updatable_copy(o) == Updatable_update(o, FALSE, PyDict(<<>>))

\* a required int, an optional int defaulting to None, a list with a
\* default factory
UpdatablePool(name) ==
    { Field(name, "int", MISSING, "MISSING", NoWillow),
      Field(name, "Optional[int]", PyNone, "MISSING", NoWillow),
      Field(name, "list", MISSING, "list", NoWillow) }

RECURSIVE UpdatableSeqs(_)
UpdatableSeqs(n) ==
    IF n = 0 THEN {<<>>}
    ELSE {Append(fs, f) : fs \in UpdatableSeqs(n - 1), f \in UpdatablePool(FieldNames[n])}

\* Updatable classes, with and without a public property
UpdatableClasses ==
    { Class("T", <<"Updatable">>, fs, props, PyNone, "ALWAYS")
      : fs \in UNION {UpdatableSeqs(n) : n \in 1..MaxFields},
        props \in {<<>>, <<Label>>} }

\* the overrides given to update: values for some fields, or a keyword that
\* names no field
Overrides(c) ==
    InputMaps(c, Len(c.fields)) \cup {PyDict(<<<<PyStr("zzz"), PyInt(1)>>>>)}

InitUpdatable ==
    /\ cls \in UpdatableClasses
    /\ obj = NoObj
    /\ op = "idle"
    /\ arg = PyNone
    /\ ret = Return(PyNone)
    /\ vlog = <<>>
    /\ ctor = NoCall
    /\ loop = NoLoop
    /\ dirty_fields = {}
    /\ scopes = <<>>

\* the method returns and leaves the instance as its effect says
Mutates(name, a, e) ==
    /\ op' = name
    /\ arg' = a
    /\ ret' = e.res
    /\ obj' = e.self
    /\ vlog' = <<>>
    /\ ctor' = NoCall
    /\ UNCHANGED <<cls, loop, dirty_fields, scopes>>

\* obj.asdict(refresh=...)
AsDict ==
    /\ Idle
    /\ obj # NoObj
    /\ \E refresh \in BOOLEAN :
        Mutates("asdict", PyBool(refresh), WillowMixin_asdict(obj, refresh))

\* obj.update(use_deepcopy=..., **kwargs)
Update ==
    /\ Idle
    /\ obj # NoObj
    /\ \E kwargs \in Overrides(cls), use_deepcopy \in BOOLEAN :
        Mutates("update", kwargs, Updatable_update(obj, use_deepcopy, kwargs))

\* obj.copy()
Copy ==
    /\ Idle
    /\ obj # NoObj
    /\ Mutates("copy", PyNone, Updatable_copy(obj))

NextUpdatable ==
    \/ New
    \/ AsDict
    \/ Update
    \/ Copy
    \/ Discard

SpecUpdatable == InitUpdatable /\ [][NextUpdatable]_vars

\* an instance with the fields of o on which nothing was called yet
Untouched(o) == PyObj(o.cls, o.vals)

\* C16: after update or copy, asdict() and copy() on the source return what
\* they return on an instance with the same fields that was never updated
C16_SourceUnchanged ==
    /\ op = "asdict" /\ arg = PyBool(FALSE)
        => ret = WillowMixin_asdict(Untouched(obj), FALSE).res
    /\ op = "copy" => ret = Updatable_copy(Untouched(obj)).res

\* a copy of the source returned an instance whose fields differ from the
\* fields of the source
C16_Witness ==
    /\ op = "copy" /\ ret.ok
    /\ ret.val.vals # obj.vals

----------------------------------------------------------------------------
(* Identity of the caller's lists and mappings across to_dict / from_dict  *)

\* a list or mapping object the caller holds: the value with its identity
HeldList(id, items) == [t |-> "list", items |-> items, id |-> id]
HeldDict(id, entries) == [t |-> "dict", entries |-> entries, id |-> id]

\* v is one of the caller's objects (x is v, for a held x)
IsHeld(v) == "id" \in DOMAIN v

\* some list or mapping reachable from v is one of the caller's objects
RECURSIVE ReachesHeld(_)
ReachesHeld(v) ==
    CASE IsHeld(v) -> TRUE
      [] v.t = "list" -> \E i \in 1..Len(v.items) : ReachesHeld(v.items[i])
      [] v.t = "tuple" -> \E i \in 1..Len(v.elems) : ReachesHeld(v.elems[i])
      [] v.t = "dict" -> \E i \in 1..Len(v.entries) : ReachesHeld(v.entries[i][2])
      [] v.t = "obj" -> \E i \in 1..Len(v.vals) : ReachesHeld(v.vals[i])
      [] OTHER -> FALSE

\* a list with a default factory, a mapping with a default factory, a
\* required list of int, a required int
AliasPool(name) ==
    { Field(name, "list", MISSING, "list", NoWillow),
      Field(name, "dict", MISSING, "dict", NoWillow),
      Field(name, "list[int]", MISSING, "MISSING", NoWillow),
      Field(name, "int", MISSING, "MISSING", NoWillow) }

RECURSIVE AliasSeqs(_)
AliasSeqs(n) ==
    IF n = 0 THEN {<<>>}
    ELSE {Append(fs, f) : fs \in AliasSeqs(n - 1), f \in AliasPool(FieldNames[n])}

\* plain dataclasses and Serializable ones
AliasClasses ==
    { Class("T", bases, fs, <<>>, PyNone, "ALWAYS")
      : fs \in UNION {AliasSeqs(n) : n \in 1..MaxFields},
        bases \in {<<>>, <<"Serializable">>} }

\* the values the caller passes for a field; its n-th list or mapping has
\* identity n
HeldValues(type, n) ==
    CASE type \in {"list", "list[int]"} ->
            {HeldList(n, <<>>), HeldList(n, <<PyInt(1)>>)}
      [] type = "dict" ->
            {HeldDict(n, <<>>), HeldDict(n, <<<<PyStr("k"), PyInt(1)>>>>)}
      [] OTHER -> ValuesOf(type)

RECURSIVE HeldSeqs(_, _)
HeldSeqs(c, n) ==
    IF n = 0 THEN {<<>>}
    ELSE {Append(vs, v) : vs \in HeldSeqs(c, n - 1), v \in HeldValues(c.fields[n].type, n)}

\* every input mapping of the caller's values: each field absent or present
RECURSIVE HeldMaps(_, _)
HeldMaps(c, n) ==
    IF n = 0 THEN {PyDict(<<>>)}
    ELSE LET name == PyStr(c.fields[n].name)
         IN  UNION { {d} \cup {DictSet(d, name, v) : v \in HeldValues(c.fields[n].type, n)}
                     : d \in HeldMaps(c, n - 1) }

InitAlias ==
    /\ cls \in AliasClasses
    /\ obj = NoObj
    /\ op = "idle"
    /\ arg = PyNone
    /\ ret = Return(PyNone)
    /\ vlog = <<>>
    /\ ctor = NoCall
    /\ loop = NoLoop
    /\ dirty_fields = {}
    /\ scopes = <<>>

\* T(a=x, b=y) with the caller's lists and mappings x, y
NewHeld ==
    /\ Idle
    /\ \E vals \in HeldSeqs(cls, Len(cls.fields)) :
        Binds("new", Kwargs(cls, vals), Construct(cls, Kwargs(cls, vals)))
    /\ UNCHANGED cls

\* from_dict(T, {"a": x, "b": y}) with the caller's lists and mappings x, y
FromDictHeld ==
    /\ Idle
    /\ \E data \in HeldMaps(cls, Len(cls.fields)) :
        Returns("from_dict", data, from_dict(cls, data))
    /\ UNCHANGED <<cls, obj>>

NextAlias ==
    \/ NewHeld
    \/ ToDict
    \/ FromDictHeld
    \/ Discard

SpecAlias == InitAlias /\ [][NextAlias]_vars

\* C17: no list or mapping reachable from the tree to_dict returns or from
\* the instance from_dict returns is an object the caller holds
C17_NoAliasing ==
    op \in {"to_dict", "from_dict"} /\ ret.ok => ~ReachesHeld(ret.val)

\* from_dict returned an instance one of whose fields is the very list or
\* mapping of the input
C17_Witness ==
    /\ op = "from_dict" /\ ret.ok
    /\ \E i \in 1..Len(cls.fields) :
        /\ DictHas(arg, PyStr(cls.fields[i].name))
        /\ IsHeld(ret.val.vals[i])
        /\ ret.val.vals[i] = DictGet(arg, PyStr(cls.fields[i].name))

----------------------------------------------------------------------------
(* Coercion of sequences                                                   *)

\* the declared sequence types: builtin and typing generics, bare and with
\* an element type
SequenceTypes == {"list", "List", "tuple", "Tuple", "list[int]", "tuple[int]"}

\* get_args(expected_type)[0], or Any for a bare sequence type
ElementType(type) == IF type \in ParameterizedTypes THEN "int" ELSE "Any"

\* the classes with one required field of a sequence type
CoerceClasses ==
    { Class("T", <<>>, <<Field("a", type, MISSING, "MISSING", NoWillow)>>, <<>>,
            PyNone, "ALWAYS")
      : type \in SequenceTypes }

\* the element sequences of the inputs: ints, and strings of digits
ElementSeqs ==
    { <<>>, <<PyInt(1)>>, <<PyInt(0), PyInt(1)>>, <<PyInt(1), PyInt(0)>>,
      <<PyStr("1")>>, <<PyInt(1), PyStr("0")>> }

\* the input sequences: lists the caller holds, and tuples
SequenceInputs ==
    {HeldList(1, e) : e \in ElementSeqs} \cup {PyTuple(e) : e \in ElementSeqs}

Items(v) == IF v.t = "list" THEN v.items ELSE v.elems

InitCoerce ==
    /\ cls \in CoerceClasses
    /\ obj = NoObj
    /\ op = "idle"
    /\ arg = PyNone
    /\ ret = Return(PyNone)
    /\ vlog = <<>>
    /\ ctor = NoCall
    /\ loop = NoLoop
    /\ dirty_fields = {}
    /\ scopes = <<>>

\* deserialize_value(value, expected_type)
DeserializeValue ==
    /\ Idle
    /\ \E value \in SequenceInputs :
        Returns("deserialize_value", value,
                Outcome(deserialize_value(value, cls.fields[1].type), <<>>, NoCall))
    /\ UNCHANGED <<cls, obj>>

\* deserialize_field(field, {"a": value}, expected_type)
DeserializeField ==
    /\ Idle
    /\ \E value \in SequenceInputs :
        Returns("deserialize_field", value,
                Outcome(deserialize_field(cls.fields[1],
                                          PyDict(<<<<PyStr("a"), value>>>>),
                                          cls.fields[1].type),
                        <<>>, NoCall))
    /\ UNCHANGED <<cls, obj>>

NextCoerce ==
    \/ DeserializeValue
    \/ DeserializeField
    \/ Discard

SpecCoerce == InitCoerce /\ [][NextCoerce]_vars

\* the element is coercible to the element type: any value to Any, an int to
\* int
Coercible(v, type) == type = "Any" \/ deserialize_value(v, type).ok

\* the coercion of an element against the element type
Coerced(v, type) == IF type = "Any" THEN v ELSE deserialize_value(v, type).val

\* C19: coercing a sequence whose elements are all coercible to the element
\* type of the declared sequence type returns a new sequence of the same
\* length whose i-th element is the coercion of the i-th input element
C19_SequenceCoercion ==
    (/\ op \in {"deserialize_value", "deserialize_field"}
     /\ \A i \in 1..Len(Items(arg)) :
            Coercible(Items(arg)[i], ElementType(cls.fields[1].type)))
        => /\ ret.ok
           /\ ret.val.t \in {"list", "tuple"}
           /\ ~IsHeld(ret.val)
           /\ Len(Items(ret.val)) = Len(Items(arg))
           /\ \A i \in 1..Len(Items(arg)) :
                Items(ret.val)[i] = Coerced(Items(arg)[i], ElementType(cls.fields[1].type))

\* coercing a list of ints against list[int] raised TypeError
C19_Witness ==
    /\ op = "deserialize_value"
    /\ cls.fields[1].type = "list[int]"
    /\ arg = HeldList(1, <<PyInt(0), PyInt(1)>>)
    /\ ~ret.ok /\ ret.exc = "TypeError"

----------------------------------------------------------------------------
(* serialize_field: the work-stack loop over serialize_obj                 *)

\* serialize_obj(obj, stack)
serialize_obj(value, stack, heap) ==
    CASE value.t = "obj" ->
            IF Derives(value.cls, "Serializable")
            THEN Then(Serializable_to_dict(value), LAMBDA d : Captured(d, stack, heap))
            ELSE Captured(dataclasses_asdict(value), stack, heap)
      [] value.t \in {"list", "tuple"} ->
            LET src == IF value.t = "list" THEN value.items ELSE value.elems
                id == Len(heap) + 1
                rev == Reverse(src)
            IN  Captured(Ref(id),
                    stack \o [i \in 1..Len(rev) |->
                                Frame(PyNone, rev[i], id, PyStr("list_item"))],
                    Append(heap, PyList(<<>>)))
      [] value.t = "dict" ->
            LET id == Len(heap) + 1
            IN  Captured(Ref(id),
                    stack \o [i \in 1..Len(value.entries) |->
                                Frame(PyNone, value.entries[i][2], id, value.entries[i][1])],
                    Append(heap, PyDict(<<>>)))
      [] value.t = "enum" -> Captured(value.value, stack, heap)
      [] value.t = "date" -> Captured(PyStr(value.iso), stack, heap)
      [] value.t = "uuid" -> Captured(PyStr(value.hex), stack, heap)
      [] OTHER -> Captured(value, stack, heap)

RECURSIVE serialize_loop(_, _, _)
RECURSIVE serialize_store(_, _, _)

\* the loop of serialize_field: pop a frame, serialize its value
serialize_loop(stack, heap, result) ==
    IF stack = <<>> THEN Return(Resolve(heap, result))
    ELSE serialize_store(stack[Len(stack)],
                         serialize_obj(stack[Len(stack)].value,
                                       SubSeq(stack, 1, Len(stack) - 1), heap),
                         result)

\* the rest of the loop body: write the value c.out of frame fr into its
\* parent slot, and loop
serialize_store(fr, c, result) ==
    IF ~c.ok THEN c
    ELSE IF fr.parent = 0
    THEN serialize_loop(c.stack, c.heap, c.out)
    ELSE IF c.heap[fr.parent].t = "list" /\ fr.key = PyStr("list_item")
    THEN serialize_loop(c.stack,
            [c.heap EXCEPT ![fr.parent] = PyList(Append(c.heap[fr.parent].items, c.out))],
            result)
    ELSE IF c.heap[fr.parent].t = "dict" /\ fr.key.t = "str"
    THEN serialize_loop(c.stack,
            [c.heap EXCEPT ![fr.parent] = DictSet(c.heap[fr.parent], fr.key, c.out)],
            result)
    ELSE serialize_loop(c.stack, c.heap, result)

\* serialize_field(obj, serializer)
serialize_field(value, serializer) ==
    IF serializer # Absent THEN Return(ApplySerializer(serializer, value))
    ELSE serialize_loop(<<Frame(PyNone, value, 0, PyNone)>>, <<>>, PyNone)

----------------------------------------------------------------------------
(* Capture of nested sequences                                             *)

\* the sequences over a set of at most MaxLen elements
RECURSIVE SeqsOf(_, _)
SeqsOf(S, n) ==
    IF n = 0 THEN {<<>>}
    ELSE SeqsOf(S, n - 1)
            \cup {Append(q, x) : q \in {r \in SeqsOf(S, n - 1) : Len(r) = n - 1}, x \in S}

Leaves == {PyInt(0), PyInt(1)}

\* lists and tuples of leaves
Flat == {PyList(q) : q \in SeqsOf(Leaves, MaxLen)} \cup {PyTuple(q) : q \in SeqsOf(Leaves, MaxLen)}

\* mappings with a leaf or a sequence as value
Mappings ==
    { PyDict(<<<<PyStr("k"), PyInt(1)>>>>),
      PyDict(<<<<PyStr("k"), PyList(<<PyInt(0), PyInt(1)>>)>>,
               <<PyStr("j"), PyInt(0)>>>>),
      PyDict(<<<<PyInt(1), PyStr("x")>>, <<PyStr("k"), PyInt(0)>>>>) }

\* the mappings given to capture themselves: the above, three entries, a
\* mapping inside a mapping, the key "list_item"
MappingInputs ==
    Mappings \cup
    { PyDict(<<<<PyStr("k"), PyInt(1)>>, <<PyStr("j"), PyInt(0)>>, <<PyStr("a"), PyInt(1)>>>>),
      PyDict(<<<<PyStr("k"), PyDict(<<<<PyStr("j"), PyInt(1)>>, <<PyStr("a"), PyInt(0)>>>>)>>>>),
      PyDict(<<<<PyStr("list_item"), PyInt(1)>>>>),
      PyDict(<<>>) }

\* what a nested sequence holds: leaves, lists of leaves, a tuple, mappings
Elements ==
    Leaves \cup {PyList(q) : q \in SeqsOf(Leaves, MaxLen)}
        \cup {PyTuple(<<PyInt(1), PyInt(0)>>)} \cup Mappings

\* lists and tuples of leaves, sequences and mappings
Nested ==
    {PyList(q) : q \in SeqsOf(Elements, MaxLen)}
        \cup {PyTuple(q) : q \in SeqsOf(Elements, MaxLen)}

\* a level deeper: a nested sequence inside a list inside a tuple
Deep == {PyTuple(<<PyList(<<x, PyInt(0)>>), PyInt(1)>>) : x \in Nested}

CaptureInputs == Flat \cup Nested \cup Deep \cup MappingInputs

\* the record whose list field is captured
CaptureClasses ==
    { Class("T", <<"Serializable">>, <<Field("a", "list", MISSING, "list", NoWillow)>>,
            <<>>, PyNone, "ALWAYS") }

InitCapture ==
    /\ cls \in CaptureClasses
    /\ obj = NoObj
    /\ op = "idle"
    /\ arg = PyNone
    /\ ret = Return(PyNone)
    /\ vlog = <<>>
    /\ ctor = NoCall
    /\ loop = NoLoop
    /\ dirty_fields = {}
    /\ scopes = <<>>

\* capture_member(member, value), as asdict calls it
CaptureMember ==
    /\ Idle
    /\ \E value \in CaptureInputs :
        Returns("capture_member", value,
                Outcome(capture_member(cls.fields[1], value, Absent), <<>>, NoCall))
    /\ UNCHANGED <<cls, obj>>

\* capture_member(member, value, capture_fn=serialize_obj), as to_dict calls it
CaptureMemberSerialize ==
    /\ Idle
    /\ \E value \in CaptureInputs :
        Returns("capture_member(serialize_obj)", value,
                Outcome(capture_member(cls.fields[1], value, "serialize_obj"), <<>>, NoCall))
    /\ UNCHANGED <<cls, obj>>

\* serialize_field(obj, None)
SerializeField ==
    /\ Idle
    /\ \E value \in CaptureInputs :
        Returns("serialize_field", value,
                Outcome(serialize_field(value, Absent), <<>>, NoCall))
    /\ UNCHANGED <<cls, obj>>

NextCapture ==
    \/ CaptureMember
    \/ CaptureMemberSerialize
    \/ SerializeField
    \/ Discard

SpecCapture == InitCapture /\ [][NextCapture]_vars

\* c is the capture of v in order: for a list or tuple v, c is a list of the
\* same length whose i-th element is the capture of the i-th element of v,
\* and so on inside the elements and inside the values of a mapping
RECURSIVE InOrder(_, _)
InOrder(v, c) ==
    CASE v.t \in {"list", "tuple"} ->
            /\ c.t = "list"
            /\ Len(c.items) = Len(Items(v))
            /\ \A i \in 1..Len(Items(v)) :
                /\ c.items[i] = capture_member(cls.fields[1], Items(v)[i], Absent).val
                /\ InOrder(Items(v)[i], c.items[i])
      [] v.t = "dict" ->
            /\ c.t = "dict"
            /\ \A i \in 1..Len(v.entries) :
                DictHas(c, v.entries[i][1])
                    => InOrder(v.entries[i][2], DictGet(c, v.entries[i][1]))
      [] OTHER -> c = v

\* C20: the capture of a list or tuple, at any nesting depth and with
\* sequences or mappings as elements, is a list of the same length whose
\* i-th element is the capture of the i-th element of the input
C20_CapturePreservesOrder ==
    op \in {"capture_member", "capture_member(serialize_obj)"} /\ ret.ok
        => InOrder(arg, ret.val)

\* a tuple holding a list of two different elements, a mapping and a leaf
\* was captured
C20_Witness ==
    /\ op = "capture_member"
    /\ arg = PyTuple(<<PyList(<<PyInt(0), PyInt(1)>>),
                       PyDict(<<<<PyStr("k"), PyList(<<PyInt(0), PyInt(1)>>)>>,
                                <<PyStr("j"), PyInt(0)>>>>)>>)
    /\ ret.ok
    /\ PyEq(ret.val, PyList(<<PyList(<<PyInt(0), PyInt(1)>>),
                               PyDict(<<<<PyStr("k"), PyList(<<PyInt(0), PyInt(1)>>)>>,
                                        <<PyStr("j"), PyInt(0)>>>>)>>))

\* the keys of a mapping in iteration order
KeyOrder(d) == [i \in 1..Len(d.entries) |-> d.entries[i][1]]

\* the capture of a value by the operation in op
CaptureOf(v) ==
    IF op = "serialize_field" THEN serialize_field(v, Absent).val
    ELSE capture_member(cls.fields[1], v, Absent).val

\* C21: the keys of the captured mapping, in iteration order, are the keys
\* of the input mapping in the input's iteration order
C21_CapturePreservesKeyOrder ==
    (/\ op \in {"capture_member", "serialize_field"} /\ ret.ok
     /\ arg.t = "dict" /\ Len(arg.entries) >= 2
     /\ \A i \in 1..Len(arg.entries) : arg.entries[i][1].t = "str")
        => KeyOrder(ret.val) = KeyOrder(arg)

\* a mapping with the keys k, j, a in this order was captured as a mapping
\* with the keys a, j, k in this order
C21_Witness ==
    /\ op = "capture_member" /\ ret.ok
    /\ arg.t = "dict" /\ ret.val.t = "dict"
    /\ KeyOrder(arg) = <<PyStr("k"), PyStr("j"), PyStr("a")>>
    /\ KeyOrder(ret.val) = <<PyStr("a"), PyStr("j"), PyStr("k")>>

\* C22: the captured mapping has exactly the key set of the input mapping,
\* keys that are not strings included, and each key maps to the capture of
\* the input's value for that key
C22_CapturePreservesEntries ==
    (/\ op \in {"capture_member", "serialize_field"} /\ ret.ok
     /\ arg.t = "dict")
        => /\ ret.val.t = "dict"
           /\ DictKeys(ret.val) = DictKeys(arg)
           /\ \A k \in DictKeys(arg) : DictGet(ret.val, k) = CaptureOf(DictGet(arg, k))

\* a mapping with the key 1 was captured as a mapping without it
C22_Witness ==
    /\ op \in {"capture_member", "serialize_field"} /\ ret.ok
    /\ arg.t = "dict" /\ DictHas(arg, PyInt(1))
    /\ ret.val.t = "dict" /\ ~DictHas(ret.val, PyInt(1))
    /\ DictHas(ret.val, PyStr("k"))

----------------------------------------------------------------------------
(* The loop of capture_member, one iteration per step                      *)

\* the loop about to start: the root frame on the stack; pushed, popped and
\* written count the frames pushed, popped and written into their slot
Started(member, value, fn) ==
    [stack |-> <<Frame(member, value, 0, PyNone)>>, heap |-> <<>>, result |-> PyNone,
     fn |-> IF fn = Absent THEN "capture_obj" ELSE fn,
     pushed |-> 1, popped |-> 0, written |-> 0]

\* the loop after the iteration that popped frame fr and captured c
Iterated(l, fr, c) ==
    LET counted == [l EXCEPT !.stack = c.stack, !.heap = c.heap,
                             !.popped = l.popped + 1,
                             !.pushed = l.pushed + Len(c.stack) - (Len(l.stack) - 1)]
    IN  IF fr.parent = 0
        THEN [counted EXCEPT !.result = c.out, !.written = l.written + 1]
        ELSE IF c.heap[fr.parent].t = "list" /\ fr.key = PyStr("list_item")
        THEN [counted EXCEPT
                !.heap[fr.parent] = PyList(Append(c.heap[fr.parent].items, c.out)),
                !.written = l.written + 1]
        ELSE IF c.heap[fr.parent].t = "dict" /\ fr.key.t = "str"
        THEN [counted EXCEPT
                !.heap[fr.parent] = DictSet(c.heap[fr.parent], fr.key, c.out),
                !.written = l.written + 1]
        ELSE counted

InitLoop ==
    /\ cls \in CaptureClasses
    /\ obj = NoObj
    /\ op = "idle"
    /\ arg = PyNone
    /\ ret = Return(PyNone)
    /\ vlog = <<>>
    /\ ctor = NoCall
    /\ loop = NoLoop
    /\ dirty_fields = {}
    /\ scopes = <<>>

\* capture_member(member, value, capture_fn=...) up to the loop
Enter ==
    /\ Idle
    /\ \E value \in CaptureInputs, fn \in {Absent, "serialize_obj"} :
        /\ loop' = Started(cls.fields[1], value, fn)
        /\ arg' = value
    /\ op' = "capture_member: while stack"
    /\ UNCHANGED <<cls, obj, ret, vlog, ctor, dirty_fields, scopes>>

\* one iteration: pop a frame, call capture_fn, write its result
Iterate ==
    /\ Running
    /\ loop.stack # <<>>
    /\ IF ~CallBinds(loop.fn, 3, {"dict_factory", "list_factory"})
       THEN /\ ret' = Native("TypeError")
            /\ op' = "capture_member"
            /\ loop' = [loop EXCEPT !.stack = SubSeq(loop.stack, 1, Len(loop.stack) - 1),
                                    !.popped = loop.popped + 1]
       ELSE /\ loop' = Iterated(loop, loop.stack[Len(loop.stack)],
                                capture_obj(loop.stack[Len(loop.stack)].member,
                                            loop.stack[Len(loop.stack)].value,
                                            SubSeq(loop.stack, 1, Len(loop.stack) - 1),
                                            loop.heap))
            /\ UNCHANGED <<op, ret>>
    /\ UNCHANGED <<cls, obj, arg, vlog, ctor, dirty_fields, scopes>>

\* the stack is empty: return result
Leave ==
    /\ Running
    /\ loop.stack = <<>>
    /\ op' = "capture_member"
    /\ ret' = Return(Resolve(loop.heap, loop.result))
    /\ UNCHANGED <<cls, obj, arg, vlog, ctor, loop, dirty_fields, scopes>>

NextLoop ==
    \/ Enter
    \/ Iterate
    \/ Leave
    \/ Discard

SpecLoop == InitLoop /\ [][NextLoop]_vars

\* C23: capture_member ends with an empty stack and returns the root
\* result, having popped every pushed frame once and written the result of
\* every popped frame into its parent slot or the root result
C23_TraversalComplete ==
    op = "capture_member"
        => /\ ret.ok
           /\ loop.stack = <<>>
           /\ loop.popped = loop.pushed
           /\ loop.written = loop.popped

\* the loop ended on a mapping with a key that is no string: every frame
\* was popped and the result of one was written nowhere
C23_Witness ==
    /\ op = "capture_member" /\ ret.ok
    /\ arg.t = "dict" /\ DictHas(arg, PyInt(1))
    /\ loop.stack = <<>> /\ loop.popped = loop.pushed
    /\ loop.written < loop.popped

----------------------------------------------------------------------------
(* Defaults of from_dict for keys absent from the input                    *)

\* a required int, an int with a default, a list with a default factory, an
\* int whose default factory raises
DefaultPool(name) ==
    { Field(name, "int", MISSING, "MISSING", NoWillow),
      Field(name, "int", PyInt(5), "MISSING", NoWillow),
      Field(name, "list", MISSING, "list", NoWillow),
      Field(name, "int", MISSING, "boom", NoWillow) }

RECURSIVE DefaultSeqs(_)
DefaultSeqs(n) ==
    IF n = 0 THEN {<<>>}
    ELSE {Append(fs, f) : fs \in DefaultSeqs(n - 1), f \in DefaultPool(FieldNames[n])}

\* plain dataclasses and Serializable ones
DefaultClasses ==
    { Class("T", bases, fs, <<>>, PyNone, "ALWAYS")
      : fs \in UNION {DefaultSeqs(n) : n \in 1..MaxFields},
        bases \in {<<>>, <<"Serializable">>} }

InitDefault ==
    /\ cls \in DefaultClasses
    /\ obj = NoObj
    /\ op = "idle"
    /\ arg = PyNone
    /\ ret = Return(PyNone)
    /\ vlog = <<>>
    /\ ctor = NoCall
    /\ loop = NoLoop
    /\ dirty_fields = {}
    /\ scopes = <<>>

NextDefault ==
    \/ FromDict
    \/ Discard

SpecDefault == InitDefault /\ [][NextDefault]_vars

\* the non-ignored fields whose key is absent from the input
AbsentKeys(c, data) ==
    {i \in 1..Len(c.fields) :
        ~c.fields[i].willow.ignore /\ ~DictHas(data, PyStr(c.fields[i].name))}

\* the absent fields without a default whose default factory raises
FactoryRaises(c, data) ==
    {i \in AbsentKeys(c, data) :
        c.fields[i].default = MISSING /\ ~ApplyFactory(c.fields[i].default_factory).ok}

\* C25: for the fields whose key is absent, and an input that is otherwise
\* complete and well typed, from_dict passes the default, or else the value
\* of the default factory, to the constructor; if a factory raises, it
\* raises DeserializeError for the first such field, wrapping the
\* factory's exception, and constructs nothing
C25_DefaultsOnAbsentKeys ==
    (/\ op = "from_dict"
     /\ MissingRequired(cls, arg) = {}
     /\ WellTyped(cls, arg))
        => IF FactoryRaises(cls, arg) # {}
           THEN /\ ~ret.ok
                /\ ret.exc = "DeserializeError"
                /\ ret.cause = ApplyFactory("boom").exc
                /\ \E i \in FactoryRaises(cls, arg) :
                    /\ ret.field = cls.fields[i].name
                    /\ \A j \in FactoryRaises(cls, arg) : i <= j
                /\ ctor = NoCall
           ELSE /\ ctor # NoCall
                /\ \A i \in AbsentKeys(cls, arg) :
                    DictGet(ctor, PyStr(cls.fields[i].name))
                        = IF cls.fields[i].default # MISSING THEN cls.fields[i].default
                          ELSE ApplyFactory(cls.fields[i].default_factory).val

\* from_dict(T, {}) on a Serializable class whose only field has a default
\* factory that raises: NameError, not DeserializeError
C25_Witness ==
    /\ op = "from_dict" /\ arg = PyDict(<<>>)
    /\ Derives(cls, "Serializable")
    /\ FactoryRaises(cls, arg) = {1}
    /\ ~ret.ok /\ ret.exc = "NameError"

----------------------------------------------------------------------------
(* Tracked records: the caches, the dirty fields and batch_update          *)

\* the deepest nesting of batch_update scopes
MaxScopes == 2

\* hash(v) of a hashable value, one hash per value
PyHash(v) == [t |-> "hash", of |-> v]

\* hash(tuple): a list or a dict among the elements is unhashable
hash(v) ==
    IF \E i \in 1..Len(v.elems) : v.elems[i].t \in {"list", "dict"}
    THEN Native("TypeError")
    ELSE Return(PyHash(v))

\* dict.values() as a tuple
DictValues(d) == PyTuple([i \in 1..Len(d.entries) |-> d.entries[i][2]])

\* Hashable.__hash__()
Hashable_hash(o) ==
    IF o.willow_hash = PyNone
    THEN With(WillowMixin_asdict(o, FALSE), LAMBDA d :
            IF ~d.res.ok THEN d
            ELSE With(hash(DictValues(d.res.val)), LAMBDA h :
                    IF h.ok THEN Effect(h, [d.self EXCEPT !.willow_hash = h.val])
                    ELSE Effect(h, d.self)))
    ELSE Effect(Return(o.willow_hash), o)

\* batch_update up to its yield: save the flag, disable validation
Updatable_batch_enter(o) ==
    [original |-> o.willow_validation, self |-> [o EXCEPT !.willow_validation = FALSE]]

\* the loop of batch_update over the dirty fields, here in field order:
\* the first field that fails ends it
RECURSIVE validate_dirty(_, _, _, _)
validate_dirty(o, i, dirty, calls) ==
    IF i > Len(o.cls.fields) THEN [res |-> Return(PyNone), self |-> o, calls |-> calls]
    ELSE IF o.cls.fields[i].name \notin dirty THEN validate_dirty(o, i + 1, dirty, calls)
    ELSE With(_validate_field(o.willow_validation, o.cls.fields[i], o.vals[i]), LAMBDA r :
            With(IF r.called THEN Append(calls, <<o.cls.fields[i].name, o.vals[i]>>)
                 ELSE calls, LAMBDA cs :
                IF ~r.res.ok THEN [res |-> r.res, self |-> o, calls |-> cs]
                ELSE validate_dirty(o, i + 1, dirty, cs)))

\* batch_update after its yield, when the body ended normally: restore the
\* flag, then validate the dirty fields
Updatable_batch_exit(o, original, dirty) ==
    With([o EXCEPT !.willow_validation = original], LAMBDA o2 :
        IF o2.willow_validation /\ Derives(o2.cls, "Validated")
        THEN validate_dirty(o2, 1, dirty, <<>>)
        ELSE [res |-> Return(PyNone), self |-> o2, calls |-> <<>>])

\* batch_update when the body raised: the exception is thrown into the
\* generator at its yield, which does not catch it
Updatable_batch_throw(o, original) ==
    [res |-> Native("RuntimeError"), self |-> o, calls |-> <<>>]

\* a plain int, and an optional int that must be positive
TrackedPool(name) ==
    { Field(name, "int", MISSING, "MISSING", NoWillow),
      Field(name, "Optional[int]", MISSING, "MISSING",
            Willow(FALSE, Absent, "positive", FALSE, Absent, NoAliases)) }

RECURSIVE TrackedSeqs(_)
TrackedSeqs(n) ==
    IF n = 0 THEN {<<>>}
    ELSE {Append(fs, f) : fs \in TrackedSeqs(n - 1), f \in TrackedPool(FieldNames[n])}

\* records that are updatable, hashable (with Hashable.__hash__ kept by the
\* dataclass decorator), or updatable and validated
TrackedClasses ==
    { Class("T", bases, fs, <<>>, PyNone, "ALWAYS")
      : bases \in {<<"Updatable">>, <<"Hashable">>, <<"Updatable", "Validated">>},
        fs \in UNION {TrackedSeqs(n) : n \in 1..MaxFields} }

InitTracked ==
    /\ cls \in TrackedClasses
    /\ obj = NoObj
    /\ op = "idle"
    /\ arg = PyNone
    /\ ret = Return(PyNone)
    /\ vlog = <<>>
    /\ ctor = NoCall
    /\ loop = NoLoop
    /\ dirty_fields = {}
    /\ scopes = <<>>

\* hash(obj)
Hash ==
    /\ Idle
    /\ obj # NoObj
    /\ Derives(cls, "Hashable")
    /\ Mutates("hash", PyNone, Hashable_hash(obj))

\* the innermost scope as the operation that leaves it reports it: the flag
\* it saved and the fields assigned inside it, in field order
Scope(fr) ==
    PyTuple(<<PyBool(fr.original),
              PyList(SelectSeq([i \in 1..Len(cls.fields) |-> PyStr(cls.fields[i].name)],
                               LAMBDA n : n.s \in fr.assigned))>>)

\* with obj.batch_update(): the body is entered
EnterBatch ==
    /\ Idle
    /\ obj # NoObj
    /\ Derives(cls, "Updatable")
    /\ Len(scopes) < MaxScopes
    /\ op' = "batch_update: enter"
    /\ arg' = PyNone
    /\ ret' = Return(PyNone)
    /\ obj' = Updatable_batch_enter(obj).self
    /\ scopes' = Append(scopes, [original |-> Updatable_batch_enter(obj).original,
                                 assigned |-> {}])
    /\ vlog' = <<>>
    /\ ctor' = NoCall
    /\ UNCHANGED <<cls, loop, dirty_fields>>

\* the scope is left with the outcome e
Exits(name, e) ==
    /\ op' = name
    /\ arg' = Scope(scopes[Len(scopes)])
    /\ ret' = e.res
    /\ obj' = e.self
    /\ vlog' = e.calls
    /\ ctor' = NoCall
    /\ scopes' = SubSeq(scopes, 1, Len(scopes) - 1)
    /\ UNCHANGED <<cls, loop, dirty_fields>>

\* the body of the innermost scope ends normally
LeaveBatch ==
    /\ Idle
    /\ scopes # <<>>
    /\ Exits("batch_update: exit",
              Updatable_batch_exit(obj, scopes[Len(scopes)].original, dirty_fields))

\* the body of the innermost scope raises
RaiseInBatch ==
    /\ Idle
    /\ scopes # <<>>
    /\ Exits("batch_update: raise",
              Updatable_batch_throw(obj, scopes[Len(scopes)].original))

NextTracked ==
    \/ New
    \/ SetAttr
    \/ AsDict
    \/ Hash
    \/ EnterBatch
    \/ LeaveBatch
    \/ RaiseInBatch
    \/ Discard

SpecTracked == InitTracked /\ [][NextTracked]_vars

\* the mapping asdict computes from the fields the instance holds now
Current(o) == asdict(Untouched(o))

\* C26: asdict() without refresh returns the mapping of the current field
\* values, and a field that was assigned and not validated is among the
\* dirty fields
C26_CacheInvalidation ==
    /\ (op = "asdict" /\ arg = PyBool(FALSE) /\ ret.ok) => ret.val = Current(obj).val
    /\ (op = "setattr" /\ ret.ok /\ vlog = <<>>) => arg.elems[1].s \in dirty_fields

\* an assignment changed a field after asdict() cached the mapping, and
\* asdict() returned the mapping cached before it
C26_Witness ==
    /\ op = "asdict"
    /\ arg = PyBool(FALSE)
    /\ ret.ok
    /\ ret.val # Current(obj).val
    /\ dirty_fields = {}

\* C27: when a batch_update scope is left, by the normal end of its body
\* or by an exception, the validation flag is the one the instance had when
\* the scope was entered
C27_FlagRestored ==
    op \in {"batch_update: exit", "batch_update: raise"}
        => obj.willow_validation = arg.elems[1].b

\* the body of a scope entered with validation enabled raised, and the
\* instance is left with validation disabled
C27_Witness ==
    /\ op = "batch_update: raise"
    /\ arg.elems[1].b
    /\ ~obj.willow_validation

\* the fields assigned inside the scope that was left, as arg reports them
AssignedInScope == {i \in 1..Len(cls.fields) : PyStr(cls.fields[i].name) \in SeqToSet(arg.elems[2].items)}

\* the validator invocations of the last operation on field i
Invocations(i) == {k \in 1..Len(vlog) : vlog[k][1] = cls.fields[i].name}

\* C28: inside a batch_update scope an assignment invokes no validator; when
\* the scope ends normally and validation was enabled before it, every field
\* assigned inside is validated exactly once with the value it holds, and a
\* value that fails its validator raises ValidationError at the exit
C28_DeferredValidation ==
    /\ (op = "setattr" /\ scopes # <<>>) => vlog = <<>>
    /\ (op = "batch_update: exit" /\ Derives(cls, "Validated") /\ arg.elems[1].b)
        => /\ ret.ok =>
                \A i \in AssignedInScope :
                    cls.fields[i].willow.validator # Absent
                        => /\ Cardinality(Invocations(i)) = 1
                           /\ \A k \in Invocations(i) : vlog[k][2] = obj.vals[i]
           /\ (\E i \in AssignedInScope : Fails(cls.fields[i], obj.vals[i]))
                => ~ret.ok /\ ret.exc = "ValidationError"

\* a scope entered with validation enabled ended normally without an error
\* and without a validator call, and a field assigned inside it holds a
\* value that fails its validator
C28_Witness ==
    /\ op = "batch_update: exit"
    /\ Derives(cls, "Validated")
    /\ arg.elems[1].b
    /\ ret.ok
    /\ vlog = <<>>
    /\ \E i \in AssignedInScope : Fails(cls.fields[i], obj.vals[i])

\* C29: hash(instance) is the hash of the tuple of the values the fields
\* hold now, whatever assignments and hash() calls came before
C29_HashConsistent ==
    (op = "hash" /\ ret.ok) => ret.val = PyHash(PyTuple(obj.vals))

\* hash() returned the hash of values the instance no longer holds
C29_Witness ==
    /\ op = "hash"
    /\ ret.ok
    /\ ret.val # PyHash(PyTuple(obj.vals))
    /\ \E vals \in ValueSeqs(cls, Len(cls.fields)) : ret.val = PyHash(PyTuple(vals))

----------------------------------------------------------------------------
(* Two instances: a record held in a field of another record               *)

\* records whose first field holds a record of class B; some have a second
\* field
NestedClasses ==
    { Class("A", bases, <<Field("a", "B", MISSING, "MISSING", NoWillow)>> \o rest,
            <<>>, PyNone, "ALWAYS")
      : bases \in {<<"Updatable">>, <<"Updatable", "Validated">>},
        rest \in {<<>>} \cup {<<f>> : f \in TrackedPool("b")} }

InitNested ==
    /\ cls \in NestedClasses
    /\ obj = NoObj
    /\ op = "idle"
    /\ arg = PyNone
    /\ ret = Return(PyNone)
    /\ vlog = <<>>
    /\ ctor = NoCall
    /\ loop = NoLoop
    /\ dirty_fields = {}
    /\ scopes = <<>>

\* the instance the first field of o holds
Held(o) == o.vals[1]

\* obj.a.x = value: an assignment to the field of the held instance
SetAttrHeld ==
    /\ Idle
    /\ obj # NoObj
    /\ Held(obj).t = "obj"
    /\ \E value \in ValuesOf("int") :
        With(HooksMixin_setattr(Held(obj), "x", value), LAMBDA e :
            /\ op' = "setattr held"
            /\ arg' = PyTuple(<<PyStr("x"), value>>)
            /\ ret' = e.res
            /\ obj' = [obj EXCEPT !.vals[1] = e.self]
            /\ vlog' = e.calls
            /\ ctor' = NoCall
            /\ dirty_fields' = dirty_fields \cup e.added
            /\ UNCHANGED <<cls, loop, scopes>>)

NextNested ==
    \/ New
    \/ SetAttr
    \/ SetAttrHeld
    \/ AsDict
    \/ Update
    \/ Copy
    \/ Discard

SpecNested == InitNested /\ [][NextNested]_vars

\* the step is an operation on the holding instance that leaves the held
\* instance in its field
OnHolder ==
    /\ obj # NoObj
    /\ \/ op' \in {"asdict", "update", "copy"}
       \/ op' = "setattr" /\ arg'.elems[1] # PyStr(cls.fields[1].name)

\* C30: an operation on one instance (assignment, asdict, update, copy)
\* changes neither the cached mapping nor the dirty fields of another
\* instance, here the one it holds in a field
C30_InstanceLocal ==
    [][OnHolder => /\ Held(obj').willow_asdict = Held(obj).willow_asdict
                   /\ dirty_fields' = dirty_fields]_vars

\* asdict() on the holding instance returned and the held instance, on
\* which asdict() was never called by the caller, has a cached mapping
C30_Witness ==
    /\ op = "asdict"
    /\ ret.ok
    /\ Held(obj).t = "obj"
    /\ Held(obj).willow_asdict # PyNone

====
